---- MODULE Spec2Model ----
(***************************************************************************)
(* Model of the BrickLink location-assignment core:                        *)
(*   src/location_matcher.py  (LocationMatcher)                            *)
(*   src/bsx_handler.py       (BSXHandler, BSXItem)                        *)
(* Text (str) is modelled as a sequence of one-character strings, so that  *)
(* strip(), upper() and indexing are computed and not assumed.             *)
(***************************************************************************)
EXTENDS Integers, Sequences, FiniteSets, TLC

VARIABLES
    inventory_locations,  \* LocationMatcher.inventory_locations: item id -> list of entries
    inventory_loaded,     \* LocationMatcher.inventory_loaded
    feed,                 \* the record list the provider returns to get_inventory()
    best_call,            \* last find_best_location_for_item call: its target and result
    priority_call,        \* last _get_location_priority call: its argument and result
    process_calls,        \* the process_bsx_file calls made, oldest first
    fetched,              \* the list of the last load_inventory_locations that succeeded
    pages,                \* the pages the provider serves to /inventories
    fetch,                \* the get_inventory call in progress: its locals and result
    root,                 \* BSXHandler.root: <<>> for None, else <<the root element>>
    items,                \* BSXHandler.items: the BSXItem records
    file_path,            \* BSXHandler.file_path: <<>> for None
    disk,                 \* the files: path -> content
    orig,                 \* the content read by the last successful load_bsx_file
    updates,              \* the update_item_location calls since that load
    last_save,            \* the last successful save_bsx_file since that load
    update_call,          \* last update_item_location call: its arguments and effect
    load_call,            \* last load_bsx_file call: its result, the state before and after
    detached,             \* the tree the items' elements belong to when it is not root
    steps                 \* number of BSXHandler calls made

apiVars == <<fetched, pages, fetch>>

matcherVars == <<inventory_locations, inventory_loaded, feed, best_call, priority_call,
                 process_calls, apiVars>>

handlerVars == <<root, items, file_path, disk, orig, updates, last_save, update_call,
                 load_call, detached, steps>>

vars == <<inventory_locations, inventory_loaded, feed, best_call, priority_call,
          process_calls, fetched, pages, fetch, root, items, file_path, disk, orig,
          updates, last_save, update_call, load_call, detached, steps>>

-----------------------------------------------------------------------------
(* Python values *)

\* Python's None (no text is a sequence holding a four-character element).
NoneVal == <<"None">>

\* No call made yet.
NoCall == [made |-> FALSE]

LowerCase == <<"a","b","c","d","e","f","g","h","i","j","k","l","m",
               "n","o","p","q","r","s","t","u","v","w","x","y","z">>

UpperCase == <<"A","B","C","D","E","F","G","H","I","J","K","L","M",
               "N","O","P","Q","R","S","T","U","V","W","X","Y","Z">>

\* str.upper() of one ASCII character.
Upper(c) ==
    IF \E i \in DOMAIN LowerCase : LowerCase[i] = c
    THEN UpperCase[CHOOSE i \in DOMAIN LowerCase : LowerCase[i] = c]
    ELSE c

\* Characters str.strip() removes.
IsSpace(c) == c \in {" ", "\n", "\t"}

RECURSIVE LStrip(_)
LStrip(s) ==
    IF s = <<>> THEN <<>>
    ELSE IF IsSpace(Head(s)) THEN LStrip(Tail(s)) ELSE s

RECURSIVE RStrip(_)
RStrip(s) ==
    IF s = <<>> THEN <<>>
    ELSE IF IsSpace(s[Len(s)]) THEN RStrip(SubSeq(s, 1, Len(s) - 1)) ELSE s

\* str.strip()
Strip(s) == RStrip(LStrip(s))

Digits == <<"0","1","2","3","4","5","6","7","8","9">>

\* str(n) of a non-negative int: its decimal digits.
RECURSIVE IntToStr(_)
IntToStr(n) ==
    IF n < 10 THEN <<Digits[n + 1]>>
    ELSE IntToStr(n \div 10) \o <<Digits[(n % 10) + 1]>>

-----------------------------------------------------------------------------
(* LocationMatcher._get_location_priority *)

\* Mutant: the first character is compared without upper().
PriorityWithoutUpper(location) ==
    IF location = <<>> THEN 2
    ELSE IF location[1] = "R" THEN 0
    ELSE IF location[1] = "S" THEN 1
    ELSE 2

_get_location_priority(location) ==
    IF location = <<>> THEN 2
    ELSE LET first_char == Upper(location[1])
         IN  IF first_char = "R" THEN 0
             ELSE IF first_char = "S" THEN 1
             ELSE 2

\* A call of _get_location_priority, its result recorded.
GetLocationPriority(location) ==
    /\ priority_call' = [made |-> TRUE, location |-> location,
                         result |-> _get_location_priority(location)]
    /\ UNCHANGED <<inventory_locations, inventory_loaded, feed, best_call,
                   process_calls, apiVars>>
    /\ UNCHANGED handlerVars

-----------------------------------------------------------------------------
(* LocationMatcher.load_inventory_locations *)

\* Mutant: a record is indexed whether or not it has a location text.
AddRecordWithoutRemarksCheck(index, item) ==
    LET item_id == item.no
        entry   == [location  |-> Strip(item.remarks),
                    quantity  |-> item.quantity,
                    condition |-> item.condition,
                    color_id  |-> item.color_id]
    IN  IF item_id # <<>>
        THEN IF item_id \in DOMAIN index
             THEN [index EXCEPT ![item_id] = Append(@, entry)]
             ELSE [k \in DOMAIN index \cup {item_id} |->
                      IF k = item_id THEN <<entry>> ELSE index[k]]
        ELSE index

\* Mutant: the location text is stored as received, without strip().
AddRecordUnstripped(index, item) ==
    LET item_id == item.no
        remarks == Strip(item.remarks)
        entry   == [location  |-> item.remarks,
                    quantity  |-> item.quantity,
                    condition |-> item.condition,
                    color_id  |-> item.color_id]
    IN  IF item_id # <<>> /\ remarks # <<>>
        THEN IF item_id \in DOMAIN index
             THEN [index EXCEPT ![item_id] = Append(@, entry)]
             ELSE [k \in DOMAIN index \cup {item_id} |->
                      IF k = item_id THEN <<entry>> ELSE index[k]]
        ELSE index

\* The loop body of load_inventory_locations for one provider record.
AddRecord(index, item) ==
    LET item_id == item.no
        remarks == Strip(item.remarks)
        entry   == [location  |-> remarks,
                    quantity  |-> item.quantity,
                    condition |-> item.condition,
                    color_id  |-> item.color_id]
    IN  IF item_id # <<>> /\ remarks # <<>>
        THEN IF item_id \in DOMAIN index
             THEN [index EXCEPT ![item_id] = Append(@, entry)]
             ELSE [k \in DOMAIN index \cup {item_id} |->
                      IF k = item_id THEN <<entry>> ELSE index[k]]
        ELSE index

\* The for loop of load_inventory_locations over inventory_data, from index.
RECURSIVE BuildIndex(_, _)
BuildIndex(index, inventory_data) ==
    IF inventory_data = <<>> THEN index
    ELSE BuildIndex(AddRecord(index, Head(inventory_data)), Tail(inventory_data))

\* The empty dict {}.
EmptyDict == [k \in {} |-> <<>>]

\* item.get('remarks', '').strip() raises AttributeError when the record's
\* remarks is None.
Raises(item) == item.remarks = NoneVal

\* The position of the first record of inventory_data whose processing raises,
\* 0 when none does.
FirstRaising(inventory_data) ==
    IF \E i \in DOMAIN inventory_data : Raises(inventory_data[i])
    THEN CHOOSE i \in DOMAIN inventory_data :
            /\ Raises(inventory_data[i])
            /\ \A j \in 1..(i - 1) : ~Raises(inventory_data[j])
    ELSE 0

\* inventory_locations when load_inventory_locations returns after a fetch
\* that succeeded: the dict is emptied, then filled record by record until
\* the list ends or a record raises.
LoadedIndex(inventory_data) ==
    LET raising == FirstRaising(inventory_data)
    IN  IF raising = 0
        THEN BuildIndex(EmptyDict, inventory_data)
        ELSE BuildIndex(EmptyDict, SubSeq(inventory_data, 1, raising - 1))

\* load_inventory_locations(): success is what api.get_inventory() reports.
\* A failed fetch returns before anything is assigned; a record that raises
\* ends the call in the except clause, before inventory_loaded is assigned.
\* The list of a call that returns success is recorded.
LoadInventoryLocations ==
    /\ \E success \in BOOLEAN :
          IF ~success
          THEN UNCHANGED <<inventory_locations, inventory_loaded, fetched>>
          ELSE /\ inventory_locations' = LoadedIndex(feed)
               /\ IF FirstRaising(feed) = 0
                  THEN inventory_loaded' = TRUE /\ fetched' = feed
                  ELSE UNCHANGED <<inventory_loaded, fetched>>
    /\ best_call' = NoCall
    /\ UNCHANGED <<feed, priority_call, process_calls, pages, fetch>>
    /\ UNCHANGED handlerVars

-----------------------------------------------------------------------------
(* LocationMatcher.find_best_location_for_item *)

\* The keys of location_analysis in insertion order: the distinct locations of
\* the entries, each at its first appearance.
RECURSIVE AnalysisKeys(_, _)
AnalysisKeys(locations, seen) ==
    IF locations = <<>> THEN seen
    ELSE LET location == Head(locations).location
         IN  IF \E i \in DOMAIN seen : seen[i] = location
             THEN AnalysisKeys(Tail(locations), seen)
             ELSE AnalysisKeys(Tail(locations), Append(seen, location))

\* Mutant: only the entries in new condition count towards the quantity.
RECURSIVE TotalQuantityNewOnly(_, _, _)
TotalQuantityNewOnly(locations, location, n) ==
    IF n = 0 THEN 0
    ELSE TotalQuantityNewOnly(locations, location, n - 1)
         + (IF locations[n].location = location /\ locations[n].condition = "N"
            THEN locations[n].quantity ELSE 0)

\* Mutant: a location's quantity is the number of its entries.
TotalQuantityCountsEntries(locations, location, n) ==
    Cardinality({i \in 1..n : locations[i].location = location})

\* location_analysis[location]['total_quantity'] after the entries up to n.
RECURSIVE TotalQuantity(_, _, _)
TotalQuantity(locations, location, n) ==
    IF n = 0 THEN 0
    ELSE TotalQuantity(locations, location, n - 1)
         + (IF locations[n].location = location THEN locations[n].quantity ELSE 0)

\* location_analysis[location]['colors']
ColorsAt(locations, location) ==
    {IntToStr(locations[i].color_id) :
        i \in {j \in DOMAIN locations : locations[j].location = location}}

\* location_analysis[location], as built by the first loop.
Analysis(locations, location) ==
    [colors         |-> ColorsAt(locations, location),
     total_quantity |-> TotalQuantity(locations, location, Len(locations))]

\* Python's tuple comparison of two sort keys (priority, quantity).
KeyLess(a, b) == a[1] < b[1] \/ (a[1] = b[1] /\ a[2] < b[2])

\* Mutant: step 3 prefers the higher-stocked location.
KeyAscendingNegated(x) == <<_get_location_priority(x[1]), -x[2]>>

\* Mutant: steps 4 and 5 prefer the lower-stocked location.
KeyDescendingNotNegated(x) == <<_get_location_priority(x[1]), x[2]>>

\* key=lambda x: (priority(x[0]), x[1])
KeyAscending(x) == <<_get_location_priority(x[1]), x[2]>>

\* key=lambda x: (priority(x[0]), -x[1])
KeyDescending(x) == <<_get_location_priority(x[1]), -x[2]>>

\* The sort key of x in the sort of step 3 (ascending) or of steps 4 and 5.
SortKey(x, descending) == IF descending THEN KeyDescending(x) ELSE KeyAscending(x)

\* list.sort(key=...) is stable: x goes after every element whose key is not
\* greater than its own.
RECURSIVE InsertByKey(_, _, _)
InsertByKey(sorted, x, descending) ==
    IF sorted = <<>> THEN <<x>>
    ELSE IF KeyLess(SortKey(x, descending), SortKey(Head(sorted), descending))
         THEN <<x>> \o sorted
         ELSE <<Head(sorted)>> \o InsertByKey(Tail(sorted), x, descending)

RECURSIVE SortByKey(_, _, _)
SortByKey(list, n, descending) ==
    IF n = 0 THEN <<>>
    ELSE InsertByKey(SortByKey(list, n - 1, descending), list[n], descending)

\* [f(k) for k in keys if P(k)] with (location, total_quantity) tuples.
RECURSIVE SelectLocations(_, _, _)
SelectLocations(keys, locations, single) ==
    IF keys = <<>> THEN <<>>
    ELSE LET a == Analysis(locations, Head(keys))
             rest == SelectLocations(Tail(keys), locations, single)
         IN  IF (Cardinality(a.colors) = 1) = single
             THEN <<<<Head(keys), a.total_quantity>>>> \o rest
             ELSE rest

\* Mutant: step 1 keeps the last dedicated location it meets.
RECURSIVE Step1LastDedicated(_, _, _)
Step1LastDedicated(keys, locations, item_color_id) ==
    IF keys = <<>> THEN NoneVal
    ELSE LET a == Analysis(locations, keys[Len(keys)])
         IN  IF Cardinality(a.colors) = 1 /\ item_color_id \in a.colors
             THEN keys[Len(keys)]
             ELSE Step1LastDedicated(SubSeq(keys, 1, Len(keys) - 1), locations,
                                     item_color_id)

\* Step 1: the first key whose colors are exactly the item's color, or None.
RECURSIVE Step1Dedicated(_, _, _)
Step1Dedicated(keys, locations, item_color_id) ==
    IF keys = <<>> THEN NoneVal
    ELSE LET a == Analysis(locations, Head(keys))
         IN  IF Cardinality(a.colors) = 1 /\ item_color_id \in a.colors
             THEN Head(keys)
             ELSE Step1Dedicated(Tail(keys), locations, item_color_id)

\* Steps 3 to 5, once steps 1 and 2 found nothing.
Steps3To5(keys, locations) ==
    LET single_color_locations == SelectLocations(keys, locations, TRUE)
        mixed_color_locations  == SelectLocations(keys, locations, FALSE)
        location_counts ==
            [i \in DOMAIN keys |->
                <<keys[i], TotalQuantity(locations, keys[i], Len(locations))>>]
    IN  IF Len(single_color_locations) >= 2
        THEN SortByKey(single_color_locations, Len(single_color_locations),
                       FALSE)[1][1]
        ELSE IF Len(single_color_locations) > 0 /\ mixed_color_locations # <<>>
        THEN SortByKey(mixed_color_locations, Len(mixed_color_locations),
                       TRUE)[1][1]
        ELSE LET sorted_locations ==
                     SortByKey(location_counts, Len(location_counts), TRUE)
             IN  IF sorted_locations # <<>> THEN sorted_locations[1][1] ELSE NoneVal

\* Mutant: step 1 is left out.
FindBestWithoutStep1(loaded, index, bsx_item) ==
    IF ~loaded THEN NoneVal
    ELSE IF bsx_item.item_id \notin DOMAIN index THEN NoneVal
    ELSE LET locations == index[bsx_item.item_id]
             keys == AnalysisKeys(locations, <<>>)
         IN  IF locations = <<>> THEN NoneVal
             ELSE IF Len(keys) = 1 THEN keys[1]
             ELSE Steps3To5(keys, locations)

\* Mutant: only a location dedicated to the item's color is ever returned.
FindBestDedicatedOnly(loaded, index, bsx_item) ==
    IF ~loaded THEN NoneVal
    ELSE IF bsx_item.item_id \notin DOMAIN index THEN NoneVal
    ELSE LET locations == index[bsx_item.item_id]
         IN  Step1Dedicated(AnalysisKeys(locations, <<>>), locations, bsx_item.color_id)

\* find_best_location_for_item(bsx_item) against the given matcher state.
find_best_location_for_item(loaded, index, bsx_item) ==
    IF ~loaded THEN NoneVal
    ELSE IF bsx_item.item_id \notin DOMAIN index THEN NoneVal
    ELSE LET locations == index[bsx_item.item_id]
             keys == AnalysisKeys(locations, <<>>)
             dedicated == Step1Dedicated(keys, locations, bsx_item.color_id)
         IN  IF locations = <<>> THEN NoneVal
             ELSE IF dedicated # NoneVal THEN dedicated
             ELSE IF Len(keys) = 1 THEN keys[1]
             ELSE Steps3To5(keys, locations)

\* A call of find_best_location_for_item, its result recorded.
FindBestLocation(bsx_item) ==
    /\ best_call' =
          [made |-> TRUE, item |-> bsx_item,
           result |-> find_best_location_for_item(inventory_loaded,
                                                  inventory_locations, bsx_item)]
    /\ UNCHANGED <<inventory_locations, inventory_loaded, feed, priority_call,
                   process_calls, apiVars>>
    /\ UNCHANGED handlerVars

-----------------------------------------------------------------------------
(* xml.etree.ElementTree: elements, the writer and the parser *)

\* An Element: tag, attrib (name/value pairs in document order), text, the
\* child elements, tail.  The text <<>> stands for None and for ''.
Elem(tag, attrib, text, kids, tail) ==
    [tag |-> tag, attrib |-> attrib, text |-> text, kids |-> kids, tail |-> tail]

\* One token of a file: a start tag, an empty-element tag, an end tag or
\* character data.
Tok(k, tag, attrib, data) == [k |-> k, tag |-> tag, attrib |-> attrib, data |-> data]

\* _escape_cdata: & < > are written as entities.
RECURSIVE Escape(_)
Escape(s) ==
    IF s = <<>> THEN <<>>
    ELSE (IF Head(s) = "&" THEN <<"&","a","m","p",";">>
          ELSE IF Head(s) = "<" THEN <<"&","l","t",";">>
          ELSE IF Head(s) = ">" THEN <<"&","g","t",";">>
          ELSE <<Head(s)>>) \o Escape(Tail(s))

\* The parser's reading of character data: entities become characters again.
RECURSIVE Unescape(_)
Unescape(s) ==
    IF s = <<>> THEN <<>>
    ELSE IF Len(s) >= 5 /\ SubSeq(s, 1, 5) = <<"&","a","m","p",";">>
         THEN <<"&">> \o Unescape(SubSeq(s, 6, Len(s)))
    ELSE IF Len(s) >= 4 /\ SubSeq(s, 1, 4) = <<"&","l","t",";">>
         THEN <<"<">> \o Unescape(SubSeq(s, 5, Len(s)))
    ELSE IF Len(s) >= 4 /\ SubSeq(s, 1, 4) = <<"&","g","t",";">>
         THEN <<">">> \o Unescape(SubSeq(s, 5, Len(s)))
    ELSE <<Head(s)>> \o Unescape(Tail(s))

\* Character data of the file, if any text is to be written.
DataToks(text) == IF text = <<>> THEN <<>> ELSE <<Tok("data", "", <<>>, Escape(text))>>

\* ElementTree._serialize_xml: <tag /> when the element has neither text nor
\* children, else start tag, text, children, end tag; then the tail.
RECURSIVE Serialize(_)
RECURSIVE SerializeKids(_, _)
Serialize(elem) ==
    (IF elem.text = <<>> /\ elem.kids = <<>>
     THEN <<Tok("empty", elem.tag, elem.attrib, <<>>)>>
     ELSE <<Tok("start", elem.tag, elem.attrib, <<>>)>>
          \o DataToks(elem.text)
          \o SerializeKids(elem.kids, 1)
          \o <<Tok("end", elem.tag, <<>>, <<>>)>>)
    \o DataToks(elem.tail)

SerializeKids(kids, i) ==
    IF i > Len(kids) THEN <<>>
    ELSE Serialize(kids[i]) \o SerializeKids(kids, i + 1)

\* The character data starting at token pos, and the position after it.
RECURSIVE ParseData(_, _)
ParseData(toks, pos) ==
    IF pos <= Len(toks) /\ toks[pos].k = "data"
    THEN LET rest == ParseData(toks, pos + 1)
         IN  [text |-> Unescape(toks[pos].data) \o rest.text, next |-> rest.next]
    ELSE [text |-> <<>>, next |-> pos]

\* XMLParser/TreeBuilder: the element starting at token pos with its tail,
\* and the child elements starting at pos up to the enclosing end tag.
RECURSIVE ParseElement(_, _)
RECURSIVE ParseKids(_, _)
ParseElement(toks, pos) ==
    IF toks[pos].k = "empty"
    THEN LET tail == ParseData(toks, pos + 1)
         IN  [elem |-> Elem(toks[pos].tag, toks[pos].attrib, <<>>, <<>>, tail.text),
              next |-> tail.next]
    ELSE LET text == ParseData(toks, pos + 1)
             kids == ParseKids(toks, text.next)
             tail == ParseData(toks, kids.next + 1)
         IN  [elem |-> Elem(toks[pos].tag, toks[pos].attrib, text.text, kids.kids,
                            tail.text),
              next |-> tail.next]

ParseKids(toks, pos) ==
    IF pos > Len(toks) \/ toks[pos].k = "end"
    THEN [kids |-> <<>>, next |-> pos]
    ELSE LET first == ParseElement(toks, pos)
             rest  == ParseKids(toks, first.next)
         IN  [kids |-> <<first.elem>> \o rest.kids, next |-> rest.next]

\* Character data the parser accepts: no bare "<", and every "&" starts one
\* of the entities the files use.
RECURSIVE ValidData(_)
ValidData(s) ==
    IF s = <<>> THEN TRUE
    ELSE IF Head(s) = "<" THEN FALSE
    ELSE IF Head(s) = "&"
         THEN IF Len(s) >= 5 /\ SubSeq(s, 1, 5) = <<"&","a","m","p",";">>
              THEN ValidData(SubSeq(s, 6, Len(s)))
              ELSE IF Len(s) >= 4 /\ SubSeq(s, 1, 4) \in {<<"&","l","t",";">>,
                                                          <<"&","g","t",";">>}
              THEN ValidData(SubSeq(s, 5, Len(s)))
              ELSE FALSE
    ELSE ValidData(Tail(s))

\* Whitespace only.
BlankData(s) == \A i \in DOMAIN s : s[i] \in {" ", "\n", "\t", "\r"}

\* expat's reading of the tokens from pos on, with the tags open so far and
\* whether the document element has been seen: every end tag closes the
\* innermost open element, there is exactly one document element, and only
\* whitespace outside it.
RECURSIVE WellFormedFrom(_, _, _, _)
WellFormedFrom(toks, pos, open, seen) ==
    IF pos > Len(toks) THEN open = <<>> /\ seen
    ELSE LET tok == toks[pos]
         IN  IF tok.k = "data"
             THEN /\ IF open = <<>> THEN BlankData(tok.data) ELSE ValidData(tok.data)
                  /\ WellFormedFrom(toks, pos + 1, open, seen)
             ELSE IF tok.k = "start"
             THEN /\ ~(open = <<>> /\ seen)
                  /\ WellFormedFrom(toks, pos + 1, Append(open, tok.tag), TRUE)
             ELSE IF tok.k = "empty"
             THEN /\ ~(open = <<>> /\ seen)
                  /\ WellFormedFrom(toks, pos + 1, open, TRUE)
             ELSE /\ open # <<>>
                  /\ open[Len(open)] = tok.tag
                  /\ WellFormedFrom(toks, pos + 1, SubSeq(open, 1, Len(open) - 1), seen)

\* ET.parse raises ParseError unless the file is well-formed.
WellFormed(toks) == WellFormedFrom(toks, 1, <<>>, FALSE)

\* ET.parse(file).getroot(): character data outside the root element is
\* not part of the tree.
ParseFile(toks) ==
    LET lead == ParseData(toks, 1)
        top  == ParseElement(toks, lead.next).elem
    IN  [top EXCEPT !.tail = <<>>]

\* What save_bsx_file writes after the XML declaration: tree.write of the root.
WriteFile(tree) == Serialize(tree)

\* The element at a path of child positions below the top of a tree.
RECURSIVE ElemAt(_, _)
ElemAt(tree, path) ==
    IF path = <<>> THEN tree ELSE ElemAt(tree.kids[Head(path)], Tail(path))

\* The tree with the element at path replaced.
RECURSIVE ReplaceAt(_, _, _)
ReplaceAt(tree, path, elem) ==
    IF path = <<>> THEN elem
    ELSE [tree EXCEPT !.kids[Head(path)] = ReplaceAt(@, Tail(path), elem)]

\* findall('.//tag'): the paths of all descendants with the tag, in document
\* order.
RECURSIVE FindAll(_, _, _)
RECURSIVE FindAllFrom(_, _, _, _)
FindAll(elem, path, tag) == FindAllFrom(elem, path, tag, 1)

FindAllFrom(elem, path, tag, i) ==
    IF i > Len(elem.kids) THEN <<>>
    ELSE (IF elem.kids[i].tag = tag THEN <<Append(path, i)>> ELSE <<>>)
         \o FindAll(elem.kids[i], Append(path, i), tag)
         \o FindAllFrom(elem, path, tag, i + 1)

\* find(tag): the position of the first child with the tag, 0 when none.
Find(elem, tag) ==
    IF \E i \in DOMAIN elem.kids : elem.kids[i].tag = tag
    THEN CHOOSE i \in DOMAIN elem.kids :
            /\ elem.kids[i].tag = tag
            /\ \A j \in 1..(i - 1) : elem.kids[j].tag # tag
    ELSE 0

-----------------------------------------------------------------------------
(* BSXHandler *)

\* Most BSXHandler calls in one run.
MaxSteps == 3

\* str.lower() of one ASCII character.
Lower(c) ==
    IF \E i \in DOMAIN UpperCase : UpperCase[i] = c
    THEN LowerCase[CHOOSE i \in DOMAIN UpperCase : UpperCase[i] = c]
    ELSE c

\* s.lower()
LowerStr(s) == [i \in DOMAIN s |-> Lower(s[i])]

\* s.endswith(suffix)
EndsWith(s, suffix) ==
    Len(s) >= Len(suffix) /\ SubSeq(s, Len(s) - Len(suffix) + 1, Len(s)) = suffix

\* The position of the last '.' of a file name that starts an extension, 0 if none.
ExtensionDot(path) ==
    IF \E i \in 2..Len(path) : path[i] = "."
    THEN CHOOSE i \in 2..Len(path) :
            path[i] = "." /\ \A j \in (i + 1)..Len(path) : path[j] # "."
    ELSE 0

\* base, ext = os.path.splitext(path); f"{base}_updated{ext}"
UpdatedPath(path) ==
    LET dot  == ExtensionDot(path)
        base == IF dot = 0 THEN path ELSE SubSeq(path, 1, dot - 1)
        ext  == IF dot = 0 THEN <<>> ELSE SubSeq(path, dot, Len(path))
    IN  base \o <<"_","u","p","d","a","t","e","d">> \o ext

\* _get_element_text(parent, tag_name, default): the stripped text of the
\* first child with the tag, the default when there is no such child or its
\* text is None.
_get_element_text(parent, tag_name, default) ==
    LET i == Find(parent, tag_name)
    IN  IF i # 0 /\ parent.kids[i].text # <<>>
        THEN Strip(parent.kids[i].text)
        ELSE default

IsDigit(c) == \E i \in DOMAIN Digits : Digits[i] = c

DigitValue(c) == (CHOOSE i \in DOMAIN Digits : Digits[i] = c) - 1

RECURSIVE DigitsValue(_, _)
DigitsValue(s, n) ==
    IF n = 0 THEN 0 ELSE 10 * DigitsValue(s, n - 1) + DigitValue(s[n])

AllDigits(s) == s # <<>> /\ \A i \in DOMAIN s : IsDigit(s[i])

\* int(qty_text), 1 on ValueError: decimal digits with an optional sign.
ParseQty(qty_text) ==
    IF AllDigits(qty_text) THEN DigitsValue(qty_text, Len(qty_text))
    ELSE IF Len(qty_text) >= 2 /\ qty_text[1] = "-" /\ AllDigits(Tail(qty_text))
    THEN 0 - DigitsValue(Tail(qty_text), Len(qty_text) - 1)
    ELSE IF Len(qty_text) >= 2 /\ qty_text[1] = "+" /\ AllDigits(Tail(qty_text))
    THEN DigitsValue(Tail(qty_text), Len(qty_text) - 1)
    ELSE 1

\* The digits s without trailing zeros.
RECURSIVE DropTrailingZeros(_)
DropTrailingZeros(s) ==
    IF s # <<>> /\ s[Len(s)] = "0" THEN DropTrailingZeros(SubSeq(s, 1, Len(s) - 1))
    ELSE s

\* float(price_text), 0.0 on ValueError: digits '.' digits, as the pair of the
\* whole part and the significant fraction digits.
ParsePrice(price_text) ==
    LET dot   == IF \E i \in DOMAIN price_text : price_text[i] = "."
                 THEN CHOOSE i \in DOMAIN price_text : price_text[i] = "."
                 ELSE Len(price_text) + 1
        whole == SubSeq(price_text, 1, dot - 1)
        frac  == SubSeq(price_text, dot + 1, Len(price_text))
    IN  IF /\ \A i \in DOMAIN whole : IsDigit(whole[i])
           /\ \A i \in DOMAIN frac : IsDigit(frac[i])
           /\ Len(whole) + Len(frac) > 0
        THEN <<DigitsValue(whole, Len(whole)), DropTrailingZeros(frac)>>
        ELSE <<0, <<>>>>

\* _parse_item_element(item_elem): the BSXItem of the Item element at path;
\* xml_element is the reference to that element.
_parse_item_element(tree, path) ==
    LET item_elem == ElemAt(tree, path)
    IN  [item_id       |-> _get_element_text(item_elem, "ItemID", <<>>),
         item_type     |-> _get_element_text(item_elem, "ItemTypeID", <<"P">>),
         color_id      |-> _get_element_text(item_elem, "ColorID", <<"0">>),
         category_id   |-> _get_element_text(item_elem, "CategoryID", <<"0">>),
         color_name    |-> _get_element_text(item_elem, "ColorName",
                                             <<"U","n","k","n","o","w","n">>),
         category_name |-> _get_element_text(item_elem, "CategoryName",
                                             <<"U","n","k","n","o","w","n">>),
         item_name     |-> _get_element_text(item_elem, "ItemName",
                               <<"U","n","k","n","o","w","n"," ","I","t","e","m">>),
         qty           |-> ParseQty(_get_element_text(item_elem, "Qty", <<"1">>)),
         price         |-> ParsePrice(_get_element_text(item_elem, "Price",
                                                        <<"0",".","0","0">>)),
         condition     |-> _get_element_text(item_elem, "Condition", <<"N">>),
         remarks       |-> _get_element_text(item_elem, "Remarks", <<>>),
         xml_element   |-> path]

\* The items list load_bsx_file builds from root.findall('.//Item').
ParseItems(tree) ==
    LET item_elements == FindAll(tree, <<>>, "Item")
    IN  [i \in DOMAIN item_elements |-> _parse_item_element(tree, item_elements[i])]

\* Mutant: the root tag is not validated.
LoadWithoutRootCheck(files, rt, its, fp, dt, path) ==
    IF path \notin DOMAIN files
    THEN [ok |-> FALSE, root |-> rt, items |-> its, file_path |-> fp, detached |-> dt]
    ELSE IF ~(EndsWith(LowerStr(path), <<".","b","s","x">>)
              \/ EndsWith(LowerStr(path), <<".","x","m","l">>))
    THEN [ok |-> FALSE, root |-> rt, items |-> its, file_path |-> fp, detached |-> dt]
    ELSE IF ~WellFormed(files[path])
    THEN [ok |-> FALSE, root |-> rt, items |-> its, file_path |-> fp, detached |-> dt]
    ELSE LET tree == ParseFile(files[path])
         IN  [ok |-> TRUE, root |-> <<tree>>, items |-> ParseItems(tree),
              file_path |-> <<path>>, detached |-> <<>>]

\* load_bsx_file(path) on a handler with the given root, items and file_path:
\* its result and the fields it leaves.  root and file_path are assigned as
\* soon as the file is parsed, the items once the root tag is validated; dt
\* is the tree the elements of the items belong to when that is not root.
load_bsx_file(files, rt, its, fp, dt, path) ==
    IF path \notin DOMAIN files
    THEN [ok |-> FALSE, root |-> rt, items |-> its, file_path |-> fp, detached |-> dt]
    ELSE IF ~(EndsWith(LowerStr(path), <<".","b","s","x">>)
              \/ EndsWith(LowerStr(path), <<".","x","m","l">>))
    THEN [ok |-> FALSE, root |-> rt, items |-> its, file_path |-> fp, detached |-> dt]
    ELSE IF ~WellFormed(files[path])
    THEN [ok |-> FALSE, root |-> rt, items |-> its, file_path |-> fp, detached |-> dt]
    ELSE LET tree == ParseFile(files[path])
         IN  IF tree.tag # "BrickStoreXML"
             THEN [ok |-> FALSE, root |-> <<tree>>, items |-> its,
                   file_path |-> <<path>>,
                   detached |-> IF dt # <<>> THEN dt ELSE rt]
             ELSE [ok |-> TRUE, root |-> <<tree>>, items |-> ParseItems(tree),
                   file_path |-> <<path>>, detached |-> <<>>]

\* A call load_bsx_file(path), recorded with its result and the fields
\* before and after it.
LoadBsxFile(path) ==
    /\ steps < MaxSteps
    /\ steps' = steps + 1
    /\ \E r \in {load_bsx_file(disk, root, items, file_path, detached, path)} :
          /\ root' = r.root
          /\ items' = r.items
          /\ file_path' = r.file_path
          /\ detached' = r.detached
          /\ IF r.ok
             THEN /\ orig' = disk[path]
                  /\ updates' = <<>>
                  /\ last_save' = NoCall
             ELSE UNCHANGED <<orig, updates, last_save>>
          /\ load_call' =
                [made |-> TRUE, path |-> path, ok |-> r.ok,
                 content |-> IF path \in DOMAIN disk THEN <<disk[path]>> ELSE <<>>,
                 before |-> [root |-> root, items |-> items, file_path |-> file_path,
                             detached |-> detached],
                 after |-> [root |-> r.root, items |-> r.items,
                            file_path |-> r.file_path, detached |-> r.detached]]
    /\ UNCHANGED <<disk, update_call>>
    /\ UNCHANGED matcherVars

\* "\n" + level * "  "
IndentText(level) == <<"\n">> \o [i \in 1..(2 * level) |-> " "]

\* not s or not s.strip()
Blank(s) == Strip(s) = <<>>

\* Mutant: the text of an element without children is indented as well.
RECURSIVE IndentLeafText(_, _)
IndentLeafText(elem, level) ==
    LET indent == IndentText(level)
    IN  IF elem.kids # <<>>
        THEN LET kids == [i \in DOMAIN elem.kids |->
                             IndentLeafText(elem.kids[i], level + 1)]
                 last == Len(kids)
             IN  [elem EXCEPT
                    !.text = IF Blank(@) THEN indent \o <<" ", " ">> ELSE @,
                    !.tail = IF Blank(@) THEN indent ELSE @,
                    !.kids = [kids EXCEPT
                                ![last].tail = IF Blank(@) THEN indent ELSE @]]
        ELSE [elem EXCEPT
                !.text = IF Blank(@) THEN indent ELSE @,
                !.tail = IF level # 0 /\ Blank(@) THEN indent ELSE @]

\* _indent_xml(elem, level).  The loop variable rebinds elem, so the test
\* after the loop sets the tail of the last child.
RECURSIVE _indent_xml(_, _)
_indent_xml(elem, level) ==
    LET indent == IndentText(level)
    IN  IF elem.kids # <<>>
        THEN LET kids == [i \in DOMAIN elem.kids |->
                             _indent_xml(elem.kids[i], level + 1)]
                 last == Len(kids)
             IN  [elem EXCEPT
                    !.text = IF Blank(@) THEN indent \o <<" ", " ">> ELSE @,
                    !.tail = IF Blank(@) THEN indent ELSE @,
                    !.kids = [kids EXCEPT
                                ![last].tail = IF Blank(@) THEN indent ELSE @]]
        ELSE [elem EXCEPT
                !.tail = IF level # 0 /\ Blank(@) THEN indent ELSE @]

\* BSXItem.xml_element = None, the dataclass default: no element.  Child
\* positions start at 1, so this is the path of no element.
NoElement == <<0>>

\* A BSXItem built without xml_element.
DetachedItem ==
    [item_id |-> <<"3","0","0","1">>, item_type |-> <<"P">>, color_id |-> <<"4">>,
     category_id |-> <<"0">>, color_name |-> <<"U","n","k","n","o","w","n">>,
     category_name |-> <<"U","n","k","n","o","w","n">>,
     item_name |-> <<"U","n","k","n","o","w","n"," ","I","t","e","m">>,
     qty |-> 1, price |-> <<0, <<>>>>, condition |-> <<"N">>, remarks |-> <<>>,
     xml_element |-> NoElement]

\* Mutant: a Remarks child is appended whether or not the element has one.
UpdateAlwaysAppends(rt, item, location) ==
    IF item.xml_element = NoElement
    THEN [ok |-> FALSE, root |-> rt, item |-> item]
    ELSE LET item_elem == ElemAt(rt[1], item.xml_element)
             updated ==
                 [item_elem EXCEPT
                    !.kids = Append(@, Elem("Remarks", <<>>, location, <<>>, <<>>))]
         IN  [ok   |-> TRUE,
              root |-> <<ReplaceAt(rt[1], item.xml_element, updated)>>,
              item |-> [item EXCEPT !.remarks = location]]

\* update_item_location(item, location) on the tree rt (<<>> for None): False
\* when the item has no element; else the first Remarks child of its element
\* gets the text, a Remarks child being appended when there is none, and the
\* record's remarks field mirrors it.
update_item_location(rt, item, location) ==
    IF item.xml_element = NoElement
    THEN [ok |-> FALSE, root |-> rt, item |-> item]
    ELSE LET item_elem == ElemAt(rt[1], item.xml_element)
             r == Find(item_elem, "Remarks")
             updated ==
                 IF r = 0
                 THEN [item_elem EXCEPT
                         !.kids = Append(@, Elem("Remarks", <<>>, location, <<>>, <<>>))]
                 ELSE [item_elem EXCEPT !.kids[r].text = location]
         IN  [ok   |-> TRUE,
              root |-> <<ReplaceAt(rt[1], item.xml_element, updated)>>,
              item |-> [item EXCEPT !.remarks = location]]

\* The tree the elements of the items belong to: root, unless a load that
\* failed on the root tag has replaced root and left the items.
ItemTree == IF detached = <<>> THEN root ELSE detached

\* A call update_item_location(item, location): item is the record at position
\* i of items, or a BSXItem built without xml_element when i = 0.
UpdateItemLocation(i, location) ==
    /\ steps < MaxSteps
    /\ i = 0 \/ i \in DOMAIN items
    /\ LET item == IF i = 0 THEN DetachedItem ELSE items[i]
           r == update_item_location(ItemTree, item, location)
           items_after == IF i = 0 THEN items ELSE [items EXCEPT ![i] = r.item]
       IN  /\ IF detached = <<>>
              THEN root' = r.root /\ UNCHANGED detached
              ELSE detached' = r.root /\ UNCHANGED root
           /\ items' = items_after
           /\ updates' = IF r.ok
                         THEN Append(updates, [index |-> i, location |-> location])
                         ELSE updates
           /\ update_call' =
                 [made |-> TRUE, index |-> i, location |-> location, item |-> item,
                  ok |-> r.ok, root_before |-> root, items_before |-> items,
                  root_after |-> r.root, items_after |-> items_after]
    /\ steps' = steps + 1
    /\ UNCHANGED <<file_path, disk, orig, last_save, load_call>>
    /\ UNCHANGED matcherVars

\* save_bsx_file(output_path, overwrite_original); output_path <<>> is None.
\* The tree is indented in place and written to the chosen path.
SaveBsxFile(output_path, overwrite_original) ==
    /\ steps < MaxSteps
    /\ steps' = steps + 1
    /\ IF root = <<>>
       THEN UNCHANGED <<root, disk, last_save>>
       ELSE LET save_path == IF overwrite_original THEN file_path[1]
                             ELSE IF output_path # <<>> THEN output_path
                             ELSE UpdatedPath(file_path[1])
                indented == _indent_xml(root[1], 0)
            IN  /\ root' = <<indented>>
                /\ disk' = [p \in DOMAIN disk \cup {save_path} |->
                               IF p = save_path THEN WriteFile(indented) ELSE disk[p]]
                /\ last_save' = [made |-> TRUE, path |-> save_path, updates |-> updates]
    /\ UNCHANGED <<items, file_path, orig, updates, update_call, load_call, detached>>
    /\ UNCHANGED matcherVars

-----------------------------------------------------------------------------
(* LocationMatcher.process_bsx_file *)

\* Mutant: every record is a candidate, located or not.
GetAllItems(its) == [i \in DOMAIN its |-> i]

\* get_items_without_locations(): the positions in items of the records whose
\* remarks are blank, in list order.
get_items_without_locations(its) ==
    LET Without(i) == Cardinality({j \in 1..i : Strip(its[j].remarks) = <<>>})
        n == Without(Len(its))
    IN  [k \in 1..n |->
            CHOOSE i \in DOMAIN its :
               Strip(its[i].remarks) = <<>> /\ Without(i) = k]

\* if best_location: neither None nor ''.
Truthy(best_location) == best_location # NoneVal /\ best_location # <<>>

\* Mutant: the rate is cut to one decimal instead of rounded.
SuccessRateTruncated(assigned, total) ==
    IF total > 0 THEN (assigned * 1000) \div total ELSE 0

\* round(assigned / total * 100, 1) if total > 0 else 0, in tenths of a percent.
\* round() takes the nearer tenth; on a tie, which needs a total that is a
\* multiple of 16, the even one is taken here (the float quotient decides in
\* the code).
SuccessRate(assigned, total) ==
    IF total > 0
    THEN LET q == (assigned * 1000) \div total
             r == (assigned * 1000) % total
         IN  IF 2 * r < total THEN q
             ELSE IF 2 * r > total THEN q + 1
             ELSE IF q % 2 = 0 THEN q ELSE q + 1
    ELSE 0

\* assignment_info / no_match_info without the assigned location.
ItemInfo(item) ==
    [item_id    |-> item.item_id,
     item_name  |-> item.item_name,
     color_name |-> item.color_name,
     condition  |-> item.condition,
     quantity   |-> item.qty]

\* assignment_info
AssignmentInfo(item, best_location) ==
    [item_id           |-> item.item_id,
     item_name         |-> item.item_name,
     color_name        |-> item.color_name,
     condition         |-> item.condition,
     quantity          |-> item.qty,
     assigned_location |-> best_location]

\* Mutant: the document is updated in Preview mode as well.
ProcessItemAlwaysUpdates(st, i, loaded, index, preview_only) ==
    LET item == st.items[i]
        best_location == find_best_location_for_item(loaded, index, item)
        u == update_item_location(st.root, item, best_location)
    IN  IF Truthy(best_location)
        THEN IF u.ok
             THEN [st EXCEPT
                     !.root = u.root,
                     !.items[i] = u.item,
                     !.updates = Append(@, [index |-> i, location |-> best_location]),
                     !.results.locations_assigned = @ + 1,
                     !.results.assignment_details =
                         Append(@, AssignmentInfo(item, best_location))]
             ELSE st
        ELSE [st EXCEPT
                !.results.no_location_found = @ + 1,
                !.results.items_without_matches = Append(@, ItemInfo(item))]

\* Mutant: in Apply mode the assignment is counted but not listed.
ProcessItemApplyOmitsDetails(st, i, loaded, index, preview_only) ==
    LET item == st.items[i]
        best_location == find_best_location_for_item(loaded, index, item)
        u == update_item_location(st.root, item, best_location)
    IN  IF Truthy(best_location)
        THEN IF ~preview_only
             THEN IF u.ok
                  THEN [st EXCEPT
                          !.root = u.root,
                          !.items[i] = u.item,
                          !.updates = Append(@, [index |-> i,
                                                 location |-> best_location]),
                          !.results.locations_assigned = @ + 1]
                  ELSE st
             ELSE [st EXCEPT
                     !.results.locations_assigned = @ + 1,
                     !.results.assignment_details =
                         Append(@, AssignmentInfo(item, best_location))]
        ELSE [st EXCEPT
                !.results.no_location_found = @ + 1,
                !.results.items_without_matches = Append(@, ItemInfo(item))]

\* The loop body of process_bsx_file for the candidate at position i of items.
\* st holds the tree, the records, the updates made and the results so far.
ProcessItem(st, i, loaded, index, preview_only) ==
    LET item == st.items[i]
        best_location == find_best_location_for_item(loaded, index, item)
        u == update_item_location(st.root, item, best_location)
    IN  IF Truthy(best_location)
        THEN IF ~preview_only
             THEN IF u.ok
                  THEN [st EXCEPT
                          !.root = u.root,
                          !.items[i] = u.item,
                          !.updates = Append(@, [index |-> i,
                                                 location |-> best_location]),
                          !.results.locations_assigned = @ + 1,
                          !.results.assignment_details =
                              Append(@, AssignmentInfo(item, best_location))]
                  ELSE st
             ELSE [st EXCEPT
                     !.results.locations_assigned = @ + 1,
                     !.results.assignment_details =
                         Append(@, AssignmentInfo(item, best_location))]
        ELSE [st EXCEPT
                !.results.no_location_found = @ + 1,
                !.results.items_without_matches = Append(@, ItemInfo(item))]

\* for item in items_without_locations: the state after the loop, each
\* iteration starting from the state its predecessor left.
RECURSIVE ProcessItems(_, _, _, _, _)
ProcessItems(st, candidates, loaded, index, preview_only) ==
    IF candidates = <<>> THEN st
    ELSE CHOOSE last \in
             {ProcessItems(next, Tail(candidates), loaded, index, preview_only) :
                next \in {ProcessItem(st, Head(candidates), loaded, index,
                                      preview_only)}} : TRUE

\* {"error": "Inventory not loaded. Call load_inventory_locations() first."}
ErrorResult == [error |-> "Inventory not loaded. Call load_inventory_locations() first."]

\* The pass over the candidates and the report built from it.
ProcessPass(loaded, index, rt, its, ups, preview_only) ==
    LET items_without_locations == get_items_without_locations(its)
        results == [total_items_processed |-> Len(items_without_locations),
                    locations_assigned    |-> 0,
                    no_location_found     |-> 0,
                    assignment_details    |-> <<>>,
                    items_without_matches |-> <<>>]
        Return(st) ==
            [ok      |-> TRUE,
             results |-> [total_items_processed |-> st.results.total_items_processed,
                          locations_assigned    |-> st.results.locations_assigned,
                          no_location_found     |-> st.results.no_location_found,
                          assignment_details    |-> st.results.assignment_details,
                          items_without_matches |-> st.results.items_without_matches,
                          success_rate          |->
                              SuccessRate(st.results.locations_assigned,
                                          st.results.total_items_processed)],
             root    |-> st.root,
             items   |-> st.items,
             updates |-> st.updates]
    IN  CHOOSE r \in
            {Return(st) :
               st \in {ProcessItems([root |-> rt, items |-> its, updates |-> ups,
                                     results |-> results],
                                    items_without_locations, loaded, index,
                                    preview_only)}} : TRUE

\* Mutant: the pass is made whether or not the inventory was loaded.
ProcessWithoutLoadedCheck(loaded, index, rt, its, ups, preview_only) ==
    ProcessPass(loaded, index, rt, its, ups, preview_only)

\* process_bsx_file(bsx_handler, preview_only) against the given matcher state
\* and the handler's tree, records and updates.
process_bsx_file(loaded, index, rt, its, ups, preview_only) ==
    IF ~loaded
    THEN [ok |-> FALSE, results |-> ErrorResult, root |-> rt, items |-> its,
          updates |-> ups]
    ELSE ProcessPass(loaded, index, rt, its, ups, preview_only)

\* Mutant: a pass consumes the usage entries of the items it assigned.
ProcessBsxFileConsumingIndex(preview_only) ==
    /\ steps < MaxSteps
    /\ steps' = steps + 1
    /\ \E r \in {process_bsx_file(inventory_loaded, inventory_locations, ItemTree,
                                  items, updates, preview_only)} :
           /\ IF detached = <<>>
              THEN root' = r.root /\ UNCHANGED detached
              ELSE detached' = r.root /\ UNCHANGED root
           /\ items' = r.items
           /\ updates' = r.updates
           /\ inventory_locations' =
                 [k \in {id \in DOMAIN inventory_locations :
                            \A i \in DOMAIN items :
                               Strip(items[i].remarks) # <<>> \/ items[i].item_id # id}
                    |-> inventory_locations[k]]
           /\ process_calls' =
                 Append(process_calls,
                        [preview_only |-> preview_only, ok |-> r.ok,
                         results |-> r.results,
                         before |-> [root |-> root, items |-> items,
                                     inventory_locations |-> inventory_locations,
                                     inventory_loaded |-> inventory_loaded],
                         after |-> [root |-> r.root, items |-> r.items]])
    /\ UNCHANGED <<file_path, disk, orig, last_save, update_call, load_call>>
    /\ UNCHANGED <<inventory_loaded, feed, best_call, priority_call, apiVars>>

\* A call process_bsx_file(bsx_handler, preview_only), recorded with the state
\* it started from and the document it left.
ProcessBsxFile(preview_only) ==
    /\ steps < MaxSteps
    /\ steps' = steps + 1
    /\ \E r \in {process_bsx_file(inventory_loaded, inventory_locations, ItemTree,
                                  items, updates, preview_only)} :
           /\ IF detached = <<>>
              THEN root' = r.root /\ UNCHANGED detached
              ELSE detached' = r.root /\ UNCHANGED root
           /\ items' = r.items
           /\ updates' = r.updates
           /\ process_calls' =
                 Append(process_calls,
                        [preview_only |-> preview_only, ok |-> r.ok,
                         results |-> r.results,
                         before |-> [root |-> root, items |-> items,
                                     inventory_locations |-> inventory_locations,
                                     inventory_loaded |-> inventory_loaded],
                         after |-> [root |-> r.root, items |-> r.items]])
    /\ UNCHANGED <<file_path, disk, orig, last_save, update_call, load_call>>
    /\ UNCHANGED <<inventory_locations, inventory_loaded, feed, best_call,
                   priority_call, apiVars>>

-----------------------------------------------------------------------------
(* BrickLinkAPI.get_inventory *)

\* The JSON body the provider returns for GET /inventories?page=page: the
\* records of that page, none past the last one, and the meta object if the
\* provider sends one.
Response(provider, page) ==
    [data |-> IF page \in DOMAIN provider.data THEN provider.data[page] ELSE <<>>,
     meta |-> IF provider.meta
              THEN <<[current_page |-> page, total_pages |-> provider.total_pages]>>
              ELSE <<>>]

\* meta.get('current_page', page) and meta.get('total_pages', page), with
\* meta = data.get('meta', {}).
CurrentPage(data, page) == IF data.meta = <<>> THEN page ELSE data.meta[1].current_page
TotalPages(data, page) == IF data.meta = <<>> THEN page ELSE data.meta[1].total_pages

\* Mutant: the loop goes on while current_page is not past total_pages.
LastPagePastTotal(data, page) == CurrentPage(data, page) > TotalPages(data, page)

\* The test that ends the loop after a page with records.
LastPage(data, page) == CurrentPage(data, page) >= TotalPages(data, page)

\* No get_inventory call in progress.
IdleFetch ==
    [pc |-> "idle", page |-> 0, all_items |-> <<>>, requests |-> <<>>,
     failed |-> FALSE, result |-> [ok |-> FALSE, items |-> <<>>]]

\* get_inventory() is entered: all_items = [], page = 1.
GetInventory ==
    /\ fetch.pc = "idle"
    /\ fetch' = [IdleFetch EXCEPT !.pc = "request", !.page = 1]
    /\ UNCHANGED <<inventory_locations, inventory_loaded, feed, best_call,
                   priority_call, process_calls, fetched, pages>>
    /\ UNCHANGED handlerVars

\* One turn of the while loop: the request for the current page, which the
\* transport may fail, and what the loop does with the answer.
RequestPage ==
    /\ fetch.pc = "request"
    /\ \E success \in BOOLEAN :
          LET page == fetch.page
              requests == Append(fetch.requests, page)
              data == Response(pages, page)
              page_items == data.data
              all_items == fetch.all_items \o page_items
          IN  IF ~success
              THEN fetch' = [fetch EXCEPT !.pc = "done", !.requests = requests,
                                          !.failed = TRUE,
                                          !.result = [ok |-> FALSE, items |-> <<>>]]
              ELSE IF page_items = <<>>
              THEN fetch' = [fetch EXCEPT !.pc = "done", !.requests = requests,
                                          !.result = [ok |-> TRUE,
                                                      items |-> fetch.all_items]]
              ELSE IF LastPage(data, page)
              THEN fetch' = [fetch EXCEPT !.pc = "done", !.requests = requests,
                                          !.all_items = all_items,
                                          !.result = [ok |-> TRUE, items |-> all_items]]
              ELSE fetch' = [fetch EXCEPT !.requests = requests,
                                          !.all_items = all_items,
                                          !.page = page + 1]
    /\ UNCHANGED <<inventory_locations, inventory_loaded, feed, best_call,
                   priority_call, process_calls, fetched, pages>>
    /\ UNCHANGED handlerVars

\* No provider and no call of the API client or of load_inventory_locations.
InitApi ==
    /\ fetched = <<>>
    /\ pages = [data |-> <<>>, total_pages |-> 0, meta |-> FALSE]
    /\ fetch = IdleFetch

-----------------------------------------------------------------------------
(* Inputs of the matcher *)

\* Longest provider record list drawn freely from RecordPool.
MaxFeedLen == 3

\* Most locations in a provider record list built location by location.
MaxBlocks == 3

S3001 == <<"3","0","0","1">>
S3024 == <<"3","0","2","4">>
S9999 == <<"9","9","9","9">>

LocA1 == <<"A","1">>
LocB2 == <<"B","2">>
LocC3 == <<"C","3">>
LocR1 == <<"R","1">>
LocS3 == <<"s","3">>

\* One record of the provider's /inventories data.
Rec(no, remarks, color_id, quantity) ==
    [no |-> no, remarks |-> remarks, color_id |-> color_id,
     quantity |-> quantity, condition |-> "N"]

RecordPool ==
    {Rec(S3001, LocA1, c, q) : c \in {1, 4}, q \in {1, 2}}
    \cup {Rec(S3001, LocR1, c, 1) : c \in {1, 4}}
    \cup {Rec(S3024, <<" ">> \o LocR1, 4, 1), Rec(S3001, <<" ">>, 4, 1),
          Rec(<<>>, LocA1, 4, 1)}

\* The shapes of the records of item 3001 at one location: one record of one
\* color, or a record of color 1 and a record of color 4.
BlockShapes ==
    {<<[color_id |-> c, quantity |-> q]>> : c \in {1, 4}, q \in {1, 2}}
    \cup {<<[color_id |-> 1, quantity |-> 1], [color_id |-> 4, quantity |-> q]>> :
             q \in {1, 2}}

BlockLocations == {LocA1, LocB2, LocR1, LocS3}

\* The record list of blocks i..Len(locs): the records of shapes[i] at locs[i],
\* then those of the next block.
RECURSIVE FeedOfBlocks(_, _, _)
FeedOfBlocks(locs, shapes, i) ==
    IF i > Len(locs) THEN <<>>
    ELSE [k \in DOMAIN shapes[i] |->
             Rec(S3001, locs[i], shapes[i][k].color_id, shapes[i][k].quantity)]
         \o FeedOfBlocks(locs, shapes, i + 1)

\* The scenarios of spec.md section 8, the first in both record orders.
ScenarioFeeds ==
    {<<Rec(S3001, LocA1, 4, 10), Rec(S3001, LocB2, 4, 2)>>,
     <<Rec(S3001, LocB2, 4, 2), Rec(S3001, LocA1, 4, 10)>>,
     <<Rec(S3024, LocC3, 1, 5), Rec(S3024, LocC3, 2, 3)>>}

\* A document record as the matcher reads it: item_id and color_id.
Item(item_id, color_id) == [item_id |-> item_id, color_id |-> color_id]

Targets ==
    {Item(S3001, <<"1">>), Item(S3001, <<"4">>), Item(S3001, <<"2">>),
     Item(S3024, <<"1">>), Item(S9999, <<"4">>)}

-----------------------------------------------------------------------------
(* The matcher against one provider record list *)

\* BSXHandler.__init__, with the given files on disk.
InitHandler(files) ==
    /\ root = <<>>
    /\ items = <<>>
    /\ file_path = <<>>
    /\ disk = files
    /\ orig = <<>>
    /\ updates = <<>>
    /\ last_save = NoCall
    /\ update_call = NoCall
    /\ load_call = NoCall
    /\ detached = <<>>
    /\ steps = 0

InitMatch ==
    /\ inventory_locations = EmptyDict
    /\ inventory_loaded = FALSE
    /\ \/ \E n \in 0..MaxFeedLen : feed \in [1..n -> RecordPool]
       \/ feed \in ScenarioFeeds
       \/ \E n \in 2..MaxBlocks :
             \E locs \in [1..n -> BlockLocations], shapes \in [1..n -> BlockShapes] :
                /\ \A i, j \in 1..n : locs[i] = locs[j] => i = j
                /\ feed = FeedOfBlocks(locs, shapes, 1)
    /\ best_call = NoCall
    /\ priority_call = NoCall
    /\ process_calls = <<>>
    /\ InitApi
    /\ InitHandler(EmptyDict)

NextMatch ==
    \/ LoadInventoryLocations
    \/ \E t \in Targets : FindBestLocation(t)

SpecMatch == InitMatch /\ [][NextMatch]_vars

-----------------------------------------------------------------------------
(* _get_location_priority on its own *)

\* Longest location text given to _get_location_priority.
MaxLocationLen == 2

PriorityAlphabet == {"R", "S", "r", "s", "A", "a", "1", "2", "3", "7"}

PriorityInputs ==
    UNION {[1..n -> PriorityAlphabet] : n \in 0..MaxLocationLen}
    \cup {<<"R","1","2">>}

InitPriority ==
    /\ inventory_locations = EmptyDict
    /\ inventory_loaded = FALSE
    /\ feed = <<>>
    /\ best_call = NoCall
    /\ priority_call = NoCall
    /\ process_calls = <<>>
    /\ InitApi
    /\ InitHandler(EmptyDict)

NextPriority == \E l \in PriorityInputs : GetLocationPriority(l)

SpecPriority == InitPriority /\ [][NextPriority]_vars

-----------------------------------------------------------------------------
(* The handler on one document *)

Leaf(tag, text) == Elem(tag, <<>>, text, <<>>, <<>>)

\* The children every sample Item starts with.
CoreKids(item_id, color_id) == <<Leaf("ItemID", item_id), Leaf("ColorID", color_id)>>

\* The location-bearing children of an Item: none, empty, a location, blank
\* text, two of them.
RemarksKids ==
    {<<>>,
     <<Leaf("Remarks", <<>>)>>,
     <<Leaf("Remarks", LocA1)>>,
     <<Leaf("Remarks", <<" ">>)>>,
     <<Leaf("Remarks", <<>>), Leaf("Remarks", LocA1)>>}

\* Children the handler does not model: an attribute-only element, a nested
\* structure with attributes, mixed content and an escaped character, a field
\* element holding a child and no text, blank leaf text, a nested Item.
ExtraKids ==
    {<<>>,
     <<Elem("DifferenceBaseValues", <<<<"Qty", "1">>>>, <<>>, <<>>, <<>>)>>,
     <<Elem("Extra", <<<<"k", "v">>, <<"a", "b">>>>, <<"t", "&">>,
            <<Elem("Sub", <<<<"z", "1">>>>, <<"x">>, <<>>, <<"y">>)>>, <<>>)>>,
     <<Elem("ItemName", <<>>, <<>>, <<Leaf("b", <<>>)>>, <<>>)>>,
     <<Leaf("Ws", <<" ">>)>>,
     <<Elem("Item", <<>>, <<>>, CoreKids(S3024, <<"1">>), <<>>)>>}

\* The first Item of a sample document.
FirstItems ==
    {Elem("Item", <<>>, <<>>, CoreKids(S3001, <<"4">>) \o r \o e, <<>>) :
        r \in RemarksKids, e \in ExtraKids}
    \cup {Elem("Item", <<>>, <<>>, e \o r \o CoreKids(S3001, <<"4">>), <<>>) :
        r \in RemarksKids \ {<<>>}, e \in ExtraKids \ {<<>>}}

\* What follows the first Item: nothing, or a second Item with an attribute.
MoreItems ==
    {<<>>,
     <<Elem("Item", <<<<"id", "7">>>>, <<>>,
            CoreKids(S3024, <<"1">>) \o <<Leaf("Qty", <<"2","5">>)>>, <<>>)>>}

\* A BrickStoreXML tree with the given Item elements.
Document(item_elems) ==
    Elem("BrickStoreXML", <<>>, <<>>,
         <<Elem("Inventory", <<<<"Currency", "EUR">>>>, <<>>, item_elems, <<>>)>>, <<>>)

Documents ==
    {Document(<<first>> \o more) : first \in FirstItems, more \in MoreItems}
    \cup {Document(<<>>)}

InPath == <<"i","n",".","b","s","x">>
OutPath == <<"o","u","t",".","X","M","L">>

LoadPaths == {InPath, OutPath, UpdatedPath(InPath)}

NewLocations == {LocB2, <<" ">>}

InitDoc ==
    /\ inventory_locations = EmptyDict
    /\ inventory_loaded = FALSE
    /\ feed = <<>>
    /\ best_call = NoCall
    /\ priority_call = NoCall
    /\ process_calls = <<>>
    /\ InitApi
    /\ \E d \in Documents : InitHandler([p \in {InPath} |-> WriteFile(d)])

NextDoc ==
    \/ \E path \in LoadPaths : LoadBsxFile(path)
    \/ \E i \in 0..3, location \in NewLocations : UpdateItemLocation(i, location)
    \/ \E output_path \in {<<>>, OutPath}, overwrite_original \in BOOLEAN :
          SaveBsxFile(output_path, overwrite_original)

SpecDoc == InitDoc /\ [][NextDoc]_vars

-----------------------------------------------------------------------------
(* The matcher on one document and one provider record list *)

\* Item elements of a document to process: unlocated with and without a
\* Remarks child, with blank Remarks text, unknown to any index, located.
ProcessItemElems ==
    {Elem("Item", <<>>, <<>>, CoreKids(S3001, <<"4">>), <<>>),
     Elem("Item", <<>>, <<>>,
          CoreKids(S3001, <<"1">>) \o <<Leaf("Remarks", <<>>)>>, <<>>),
     Elem("Item", <<<<"id", "7">>>>, <<>>,
          CoreKids(S3024, <<"1">>) \o <<Leaf("Remarks", <<" ">>), Leaf("Qty", <<"2","5">>)>>,
          <<>>),
     Elem("Item", <<>>, <<>>, CoreKids(S9999, <<"4">>), <<>>),
     Elem("Item", <<>>, <<>>,
          CoreKids(S3001, <<"4">>) \o <<Leaf("Remarks", LocC3)>>, <<>>)}

\* Documents of up to three of these Item elements.
ProcessDocuments ==
    {Document(<<>>)}
    \cup {Document(<<a>>) : a \in ProcessItemElems}
    \cup {Document(<<a, b>>) : a, b \in ProcessItemElems}
    \cup {Document(<<a, b, c>>) : a, b, c \in ProcessItemElems}

\* Provider record lists: none, one item at two locations, two items.
ProcessFeeds ==
    {<<>>,
     <<Rec(S3001, LocA1, 4, 1), Rec(S3001, LocB2, 1, 2)>>,
     <<Rec(S3024, LocR1, 4, 1), Rec(S3001, LocS3, 4, 2), Rec(S3001, LocA1, 1, 1)>>}

InitProcess ==
    /\ inventory_locations = EmptyDict
    /\ inventory_loaded = FALSE
    /\ feed \in ProcessFeeds
    /\ best_call = NoCall
    /\ priority_call = NoCall
    /\ process_calls = <<>>
    /\ InitApi
    /\ \E d \in ProcessDocuments : InitHandler([p \in {InPath} |-> WriteFile(d)])

NextProcess ==
    \/ LoadInventoryLocations
    \/ LoadBsxFile(InPath)
    \/ \E preview_only \in BOOLEAN : ProcessBsxFile(preview_only)
    \/ \E i \in DOMAIN items : i = 1 /\ FindBestLocation(items[i])

SpecProcess == InitProcess /\ [][NextProcess]_vars

-----------------------------------------------------------------------------
(* The handler on several files, some of them not loadable *)

\* Documents to load: no Item, one unlocated Item, a located and an unlocated.
LoadDocuments ==
    {Document(<<>>),
     Document(<<Elem("Item", <<>>, <<>>, CoreKids(S3001, <<"4">>), <<>>)>>),
     Document(<<Elem("Item", <<>>, <<>>,
                     CoreKids(S3001, <<"4">>) \o <<Leaf("Remarks", LocA1)>>, <<>>),
                Elem("Item", <<>>, <<>>, CoreKids(S3024, <<"1">>), <<>>)>>)}

\* Well-formed files of another document type: an Inventory without its
\* BrickStoreXML wrapper, and a root tag spelled in another case.
OtherRoots ==
    {Elem("Inventory", <<>>, <<>>,
          <<Elem("Item", <<>>, <<>>, CoreKids(S9999, <<"4">>), <<>>)>>, <<>>),
     Elem("brickstorexml", <<>>, <<>>, <<>>, <<>>)}

\* The ways a written document is damaged: the file is cut before its last
\* tag, the last end tag names another element, a second element follows the
\* root, the first character data holds a bare "&", nothing is left.
Broken(toks) ==
    {SubSeq(toks, 1, Len(toks) - 1),
     [toks EXCEPT ![Len(toks)] = Tok("end", "Inventory", <<>>, <<>>)],
     toks \o <<Tok("empty", "Item", <<>>, <<>>)>>,
     <<toks[1], Tok("data", "", <<>>, <<"a","&","b">>)>> \o Tail(toks),
     <<>>}

BrokenPath == <<"c","u","t",".","b","s","x">>
OtherPath == <<"o","t","h","e","r",".","x","m","l">>
TextPath == <<"i","n",".","t","x","t">>
MissingPath == <<"n","o","n","e",".","b","s","x">>

LoadFiles == {InPath, BrokenPath, OtherPath, TextPath, MissingPath}

InitLoad ==
    /\ inventory_locations = EmptyDict
    /\ inventory_loaded = FALSE
    /\ feed = <<>>
    /\ best_call = NoCall
    /\ priority_call = NoCall
    /\ process_calls = <<>>
    /\ InitApi
    /\ \E d \in LoadDocuments, other \in OtherRoots :
          \E broken \in Broken(WriteFile(Document(<<>>))) :
             InitHandler([p \in {InPath, BrokenPath, OtherPath, TextPath} |->
                             IF p = BrokenPath THEN broken
                             ELSE IF p = OtherPath THEN WriteFile(other)
                             ELSE WriteFile(d)])

NextLoad ==
    \/ \E path \in LoadFiles : LoadBsxFile(path)
    \/ \E i \in DOMAIN items : UpdateItemLocation(i, LocB2)
    \/ \E overwrite_original \in BOOLEAN : SaveBsxFile(<<>>, overwrite_original)

SpecLoad == InitLoad /\ [][NextLoad]_vars

-----------------------------------------------------------------------------
(* The index across several fetches *)

MaxReloadLen == 2

\* Records the provider returns: two with a location, one whose remarks is
\* null in the JSON body.
ReloadPool ==
    {Rec(S3001, LocA1, 4, 1), Rec(S3001, LocB2, 1, 2), Rec(S3001, NoneVal, 4, 1)}

InitReload ==
    /\ inventory_locations = EmptyDict
    /\ inventory_loaded = FALSE
    /\ \E n \in 0..MaxReloadLen : feed \in [1..n -> ReloadPool]
    /\ best_call = NoCall
    /\ priority_call = NoCall
    /\ process_calls = <<>>
    /\ InitApi
    /\ InitHandler([p \in {} |-> <<>>])

\* The store's inventory changes between two fetches.
ProviderChanges ==
    /\ \E n \in 0..MaxReloadLen : \E data \in [1..n -> ReloadPool] :
          data # feed /\ feed' = data
    /\ UNCHANGED <<inventory_locations, inventory_loaded, best_call, priority_call,
                   process_calls, apiVars>>
    /\ UNCHANGED handlerVars

NextReload ==
    \/ LoadInventoryLocations
    \/ ProviderChanges
    \/ FindBestLocation(Item(S3001, <<"4">>))

SpecReload == InitReload /\ [][NextReload]_vars

-----------------------------------------------------------------------------
(* The matcher against record lists with repeated locations and colors *)

\* The shapes of the records of item 3001 at one location: one record, two
\* records of two colors, two records of one color.
OrderShapes ==
    {<<[color_id |-> 1, quantity |-> 1]>>,
     <<[color_id |-> 4, quantity |-> 1]>>,
     <<[color_id |-> 4, quantity |-> 2]>>,
     <<[color_id |-> 1, quantity |-> 1], [color_id |-> 4, quantity |-> 1]>>,
     <<[color_id |-> 1, quantity |-> 1], [color_id |-> 1, quantity |-> 2]>>}

\* Document records with the fields the matcher is handed.
OrderTargets ==
    {[item_id |-> S3001, color_id |-> c, condition |-> "N", qty |-> 1] :
        c \in {<<"1">>, <<"4">>, <<"2">>}}

InitOrder ==
    /\ inventory_locations = EmptyDict
    /\ inventory_loaded = FALSE
    /\ \E n \in 1..MaxBlocks :
          \E locs \in [1..n -> BlockLocations], shapes \in [1..n -> OrderShapes] :
             /\ \A i, j \in 1..n : locs[i] = locs[j] => i = j
             /\ feed = FeedOfBlocks(locs, shapes, 1)
    /\ best_call = NoCall
    /\ priority_call = NoCall
    /\ process_calls = <<>>
    /\ InitApi
    /\ InitHandler([p \in {} |-> <<>>])

NextOrder ==
    \/ LoadInventoryLocations
    \/ \E t \in OrderTargets : FindBestLocation(t)

SpecOrder == InitOrder /\ [][NextOrder]_vars

-----------------------------------------------------------------------------
(* Preview, Apply and save on a loaded document *)

\* The state once load_inventory_locations and load_bsx_file have succeeded,
\* where test_full_workflow.py and LocationAssignmentTool start their passes.
InitWorkflow ==
    /\ feed \in ProcessFeeds
    /\ inventory_locations = LoadedIndex(feed)
    /\ inventory_loaded = TRUE
    /\ fetched = feed
    /\ pages = [data |-> <<>>, total_pages |-> 0, meta |-> FALSE]
    /\ fetch = IdleFetch
    /\ best_call = NoCall
    /\ priority_call = NoCall
    /\ process_calls = <<>>
    /\ \E d \in ProcessDocuments :
          \E r \in {load_bsx_file([p \in {InPath} |-> WriteFile(d)],
                                  <<>>, <<>>, <<>>, <<>>, InPath)} :
             /\ root = r.root
             /\ items = r.items
             /\ file_path = r.file_path
             /\ detached = r.detached
             /\ disk = [p \in {InPath} |-> WriteFile(d)]
             /\ orig = WriteFile(d)
    /\ updates = <<>>
    /\ last_save = NoCall
    /\ update_call = NoCall
    /\ load_call = NoCall
    /\ steps = 0

NextWorkflow ==
    \/ \E preview_only \in BOOLEAN : ProcessBsxFile(preview_only)
    \/ \E overwrite_original \in BOOLEAN : SaveBsxFile(OutPath, overwrite_original)

SpecWorkflow == InitWorkflow /\ [][NextWorkflow]_vars

-----------------------------------------------------------------------------
(* Passes over records that have no element *)

\* A caller appends to the handler's items a BSXItem built with the default
\* xml_element, None.
AppendItem ==
    /\ steps < MaxSteps
    /\ steps' = steps + 1
    /\ items' = Append(items, DetachedItem)
    /\ UNCHANGED <<root, file_path, disk, orig, updates, last_save, update_call,
                   load_call, detached>>
    /\ UNCHANGED matcherVars

NextDetached ==
    \/ AppendItem
    \/ \E preview_only \in BOOLEAN : ProcessBsxFile(preview_only)

SpecDetached == InitWorkflow /\ [][NextDetached]_vars

-----------------------------------------------------------------------------
(* get_inventory against a paging provider *)

MaxPages == 2

\* What one page of the provider holds: nothing, one record, two records.
PageData ==
    {<<>>,
     <<Rec(S3001, LocA1, 4, 1)>>,
     <<Rec(S3001, LocB2, 1, 2), Rec(S3024, LocR1, 4, 1)>>}

\* A provider with up to MaxPages pages, which reports a total_pages that
\* may or may not be the number of pages it holds, or sends no meta at all.
InitInventory ==
    /\ inventory_locations = EmptyDict
    /\ inventory_loaded = FALSE
    /\ feed = <<>>
    /\ fetched = <<>>
    /\ best_call = NoCall
    /\ priority_call = NoCall
    /\ process_calls = <<>>
    /\ \E n \in 0..MaxPages, total_pages \in 0..(MaxPages + 1), meta \in BOOLEAN :
          \E data \in [1..n -> PageData] :
             pages = [data |-> data, total_pages |-> total_pages, meta |-> meta]
    /\ fetch = IdleFetch
    /\ InitHandler([p \in {} |-> <<>>])

NextInventory ==
    \/ GetInventory
    \/ RequestPage

\* Every request is answered or fails within its timeout, so the loop always
\* takes its next turn.
SpecInventory == InitInventory /\ [][NextInventory]_vars /\ WF_vars(RequestPage)

-----------------------------------------------------------------------------
(* Properties of find_best_location_for_item, read off the recorded call  *)

\* A call was made against the loaded index.
Called == best_call.made /\ inventory_loaded

\* The usage entries of the called item; <<>> when the index has none.
CalledEntries ==
    IF best_call.item.item_id \in DOMAIN inventory_locations
    THEN inventory_locations[best_call.item.item_id]
    ELSE <<>>

\* The distinct locations of the called item.
CalledLocations == {CalledEntries[i].location : i \in DOMAIN CalledEntries}

\* The colors held at location l, as color id texts.
ColorSet(l) ==
    {IntToStr(CalledEntries[i].color_id) :
        i \in {j \in DOMAIN CalledEntries : CalledEntries[j].location = l}}

RECURSIVE SumQuantity(_, _)
SumQuantity(l, n) ==
    IF n = 0 THEN 0
    ELSE SumQuantity(l, n - 1)
         + (IF CalledEntries[n].location = l THEN CalledEntries[n].quantity ELSE 0)

\* The summed quantity of all entries at location l, whatever their color.
Total(l) == SumQuantity(l, Len(CalledEntries))

Pure(l) == Cardinality(ColorSet(l)) = 1
Mixed(l) == Cardinality(ColorSet(l)) > 1
Dedicated(l) == ColorSet(l) = {best_call.item.color_id}

\* The zone priority of spec.md 4.3, upper and lower case alike.
Zone(l) ==
    IF l # <<>> /\ l[1] \in {"R", "r"} THEN 0
    ELSE IF l # <<>> /\ l[1] \in {"S", "s"} THEN 1
    ELSE 2

\* a comes no later than b under (priority, quantity ascending).
FirstAscending(a, b) ==
    Zone(a) < Zone(b) \/ (Zone(a) = Zone(b) /\ Total(a) <= Total(b))

\* a comes no later than b under (priority, quantity descending).
FirstDescending(a, b) ==
    Zone(a) < Zone(b) \/ (Zone(a) = Zone(b) /\ Total(a) >= Total(b))

Rule1Applies == \E l \in CalledLocations : Dedicated(l)
Rule2Applies == ~Rule1Applies /\ Cardinality(CalledLocations) = 1
Rule3Applies ==
    /\ ~Rule1Applies /\ Cardinality(CalledLocations) >= 2
    /\ Cardinality({l \in CalledLocations : Pure(l)}) >= 2
Rule4Applies ==
    /\ ~Rule1Applies /\ Cardinality(CalledLocations) >= 2
    /\ Cardinality({l \in CalledLocations : Pure(l)}) = 1
    /\ \E l \in CalledLocations : Mixed(l)
Rule5Applies ==
    /\ ~Rule1Applies /\ Cardinality(CalledLocations) >= 2
    /\ \A l \in CalledLocations : Mixed(l)

\* C3: rule 1 has precedence: when some location of the item holds only the
\* target color, the result is such a location, whatever the quantities and
\* zones of the other locations.
C3_Rule1Precedence ==
    (Called /\ Rule1Applies)
        => (best_call.result \in CalledLocations /\ Dedicated(best_call.result))

\* C3 witness: rule 1 chose a dedicated location although a mixed location of
\* a better zone and a higher total quantity exists.
C3_Witness ==
    /\ Called /\ Rule1Applies
    /\ Dedicated(best_call.result)
    /\ \E m \in CalledLocations :
          /\ Mixed(m)
          /\ Total(m) > Total(best_call.result)
          /\ Zone(m) < Zone(best_call.result)

\* The record list of the 3001 scenario of spec.md section 8 was loaded, in
\* either order, and item 3001 was looked up.
Scenario3001 ==
    /\ Called
    /\ best_call.item.item_id = S3001
    /\ feed \in {<<Rec(S3001, LocA1, 4, 10), Rec(S3001, LocB2, 4, 2)>>,
                  <<Rec(S3001, LocB2, 4, 2), Rec(S3001, LocA1, 4, 10)>>}

\* C4 as stated: in the 3001 scenario the result is B2 for a target of any
\* color, color 4 included.
C4_Original == Scenario3001 => best_call.result = LocB2

\* C4 amended: in the 3001 scenario the result is B2 for every target color
\* other than 4; for color 4 both locations are dedicated and rule 1 returns
\* the location of the first entry of the index.
C4_Scenario3001 ==
    Scenario3001 =>
        IF best_call.item.color_id = <<"4">>
        THEN best_call.result = feed[1].remarks
        ELSE best_call.result = LocB2

\* C4 witness: the scenario with a target of another color, B2 returned.
C4_Witness ==
    /\ Scenario3001
    /\ best_call.item.color_id # <<"4">>
    /\ best_call.result = LocB2
    /\ Total(LocA1) = 10 /\ Total(LocB2) = 2

\* C5: rule 2: no dedicated location and exactly one distinct location: the
\* result is that location, whatever colors its entries have.
C5_Rule2SoleLocation ==
    (Called /\ Rule2Applies) => CalledLocations = {best_call.result}

\* C5 witness: item 3024 with (C3, 1, 5), (C3, 2, 3), target color 1, yields C3.
C5_Witness ==
    /\ Called /\ Rule2Applies
    /\ feed = <<Rec(S3024, LocC3, 1, 5), Rec(S3024, LocC3, 2, 3)>>
    /\ best_call.item = Item(S3024, <<"1">>)
    /\ best_call.result = LocC3

\* C6: rule 3: no dedicated location, two or more locations, two or more of
\* them pure: the result is a pure location that is first under
\* (priority, total quantity ascending) among the pure ones.
C6_Rule3PureAscending ==
    (Called /\ Rule3Applies) =>
        /\ best_call.result \in CalledLocations
        /\ Pure(best_call.result)
        /\ \A l \in CalledLocations : Pure(l) => FirstAscending(best_call.result, l)

\* C6 witness: rule 3 decided between pure locations of different quantity
\* while a mixed location of a better zone held the target color.
C6_Witness ==
    /\ Called /\ Rule3Applies
    /\ Pure(best_call.result)
    /\ \E l \in CalledLocations :
          Pure(l) /\ Zone(l) = Zone(best_call.result) /\ Total(l) > Total(best_call.result)
    /\ \E m \in CalledLocations :
          /\ Mixed(m) /\ Zone(m) < Zone(best_call.result)
          /\ best_call.item.color_id \in ColorSet(m)

\* C7: rule 4: rules 1 to 3 do not apply, one pure and at least one mixed
\* location: the result is a mixed location that is first under
\* (priority, total quantity descending) among the mixed ones.
C7_Rule4MixedDescending ==
    (Called /\ Rule4Applies) =>
        /\ best_call.result \in CalledLocations
        /\ Mixed(best_call.result)
        /\ \A l \in CalledLocations : Mixed(l) => FirstDescending(best_call.result, l)

\* C7 witness: rule 4 decided between mixed locations of different quantity,
\* the pure location being of a better zone.
C7_Witness ==
    /\ Called /\ Rule4Applies
    /\ Mixed(best_call.result)
    /\ \E l \in CalledLocations :
          Mixed(l) /\ Zone(l) = Zone(best_call.result) /\ Total(l) < Total(best_call.result)
    /\ \E q \in CalledLocations : Pure(q) /\ Zone(q) < Zone(best_call.result)

\* C8: rule 5: two or more locations, all mixed: the result is first under
\* (priority, quantity descending), the quantity of a location being the sum
\* over all its entries.
C8_Rule5Frequency ==
    (Called /\ Rule5Applies) =>
        /\ best_call.result \in CalledLocations
        /\ \A l \in CalledLocations : FirstDescending(best_call.result, l)

\* C8 witness: rule 5 decided between mixed locations of one zone and
\* different total quantity.
C8_Witness ==
    /\ Called /\ Rule5Applies
    /\ \E l \in CalledLocations :
          /\ l # best_call.result /\ Zone(l) = Zone(best_call.result)
          /\ Total(l) < Total(best_call.result)

\* C10: with the index loaded the result is None exactly when the item id has
\* no usage entries; otherwise it is a non-empty location of an entry of that
\* item id.
C10_NoMatchIffAbsent ==
    Called =>
        /\ (best_call.result = NoneVal) <=> (CalledEntries = <<>>)
        /\ (best_call.item.item_id \notin DOMAIN inventory_locations)
               <=> (CalledEntries = <<>>)
        /\ best_call.result # NoneVal =>
               (best_call.result # <<>> /\ best_call.result \in CalledLocations)

\* C10 witness: item 9999 is absent from an index that holds other items.
C10_Witness ==
    /\ Called
    /\ best_call.item.item_id = S9999
    /\ best_call.result = NoneVal
    /\ DOMAIN inventory_locations # {}

-----------------------------------------------------------------------------
(* Properties of _get_location_priority, read off the recorded call *)

\* C9 as stated: the priority is 0 exactly when the first character is 'R',
\* 1 exactly when it is 'S', and 2 otherwise, over upper- and lower-case text.
C9_Original ==
    priority_call.made =>
        LET l == priority_call.location
        IN  /\ (priority_call.result = 0) <=> (l # <<>> /\ l[1] = "R")
            /\ (priority_call.result = 1) <=> (l # <<>> /\ l[1] = "S")
            /\ priority_call.result \in {0, 1, 2}

\* C9 amended: the priority is 0 exactly when the first character is 'R' or
\* 'r', 1 exactly when it is 'S' or 's', and 2 otherwise (the empty text
\* included); so priority("R12") < priority("S3") < priority("A7") = priority("").
C9_PriorityByFirstLetter ==
    priority_call.made =>
        LET l == priority_call.location
            r == priority_call.result
        IN  /\ (r = 0) <=> (l # <<>> /\ l[1] \in {"R", "r"})
            /\ (r = 1) <=> (l # <<>> /\ l[1] \in {"S", "s"})
            /\ (r = 2) <=> (l = <<>> \/ l[1] \notin {"R", "r", "S", "s"})
            /\ l = <<"R","1","2">> => r = 0
            /\ l = <<"S","3">> => r = 1
            /\ l \in {<<"A","7">>, <<>>} => r = 2

\* C9 witness: a location starting with a lower-case 'r' got priority 0.
C9_Witness ==
    /\ priority_call.made
    /\ priority_call.location = <<"r","1">>
    /\ priority_call.result = 0

-----------------------------------------------------------------------------
(* Properties of BSXHandler: what a saved file holds, read back *)

\* An element tree without its indentation: blank text of elements that have
\* children and blank tails are dropped; tags, attributes, the order of the
\* children, leaf text and every non-blank text and tail are kept.
RECURSIVE Canon(_)
Canon(elem) ==
    [tag    |-> elem.tag,
     attrib |-> elem.attrib,
     text   |-> IF elem.kids # <<>> /\ Blank(elem.text) THEN <<>> ELSE elem.text,
     kids   |-> [i \in DOMAIN elem.kids |-> Canon(elem.kids[i])],
     tail   |-> IF Blank(elem.tail) THEN <<>> ELSE elem.tail]

\* The document the last load read, and the document the last save wrote.
OriginalTree == ParseFile(orig)
SavedTree == ParseFile(disk[last_save.path])

\* A save was made with no update since the load.
SavedUnmodified == last_save.made /\ last_save.updates = <<>>

\* C1: load_bsx_file followed by save_bsx_file with no update_item_location in
\* between writes a document structurally equal to the original: the same
\* elements in the same order with the same tags, attributes and leaf text,
\* unmodelled children and nested structures included; only indentation differs.
C1_RoundTrip == SavedUnmodified => Canon(SavedTree) = Canon(OriginalTree)

\* C1 witness: an unmodified document holding a nested unmodelled structure
\* with attributes was saved, and the file written differs from the file read.
C1_Witness ==
    /\ SavedUnmodified
    /\ disk[last_save.path] # orig
    /\ \E i \in DOMAIN items :
          LET item_elem == ElemAt(OriginalTree, items[i].xml_element)
          IN  \E k \in DOMAIN item_elem.kids :
                 /\ item_elem.kids[k].tag = "Extra"
                 /\ item_elem.kids[k].attrib # <<>>
                 /\ item_elem.kids[k].kids # <<>>

\* A save was made after exactly one update since the load.
SavedAfterOneUpdate == last_save.made /\ Len(last_save.updates) = 1

\* The record the one update was made on.
Updated == last_save.updates[1].index

\* The seq without its element at position i.
RemoveAt(seq, i) == SubSeq(seq, 1, i - 1) \o SubSeq(seq, i + 1, Len(seq))

\* The tree without the location field of the Item at path: its first
\* Remarks child, and the blank text an Item without children may hold.
WithoutLocation(tree, path) ==
    LET item_elem == ElemAt(tree, path)
        r == Find(item_elem, "Remarks")
        rest == IF r = 0 THEN item_elem.kids ELSE RemoveAt(item_elem.kids, r)
    IN  ReplaceAt(tree, path,
                  [item_elem EXCEPT !.kids = rest,
                                    !.text = IF Blank(@) THEN <<>> ELSE @])

\* C2 as stated: after load, one update_item_location(r, L) and save, the
\* reloaded output differs from the original only in r's location: every other
\* record is unchanged, and so is every other field, child element and
\* attribute of r, in the same order.
C2_Original ==
    SavedAfterOneUpdate =>
        LET before == ParseItems(OriginalTree)
            after  == ParseItems(SavedTree)
        IN  /\ Len(after) = Len(before)
            /\ \A j \in DOMAIN before :
                  IF j = Updated
                  THEN [after[j] EXCEPT !.remarks = <<>>]
                         = [before[j] EXCEPT !.remarks = <<>>]
                  ELSE after[j] = before[j]
            /\ Canon(WithoutLocation(SavedTree, before[Updated].xml_element))
                  = Canon(WithoutLocation(OriginalTree, before[Updated].xml_element))

-----------------------------------------------------------------------------
(* Properties of process_bsx_file, read off the recorded calls *)

\* The positions of the records of its without a location, blank text being
\* no location.
Unlocated(its) == {i \in DOMAIN its : \A k \in DOMAIN its[i].remarks :
                                         its[i].remarks[k] \in {" ", "\n", "\t"}}

\* Two calls returned the same thing: both an error, or equal reports.
SameReturn(a, b) == a.ok = b.ok /\ a.results = b.results

\* Call b started on the document as call a left it, against the same index.
Follows(a, b) ==
    /\ b.before.root = a.after.root
    /\ b.before.items = a.after.items
    /\ b.before.inventory_locations = a.before.inventory_locations
    /\ b.before.inventory_loaded = a.before.inventory_loaded

\* C11: running process_bsx_file twice in Preview mode on the same document
\* and the same index returns identical reports: the same counts, the same
\* success rate, the same assignment and unmatched entries in the same order.
C11_PreviewTwice ==
    \A k \in 1..(Len(process_calls) - 1) :
       LET a == process_calls[k]
           b == process_calls[k + 1]
       IN  (a.preview_only /\ b.preview_only /\ Follows(a, b)) => SameReturn(a, b)

\* C11 witness: two Preview passes in a row over a document, the first
\* reporting an assignment and an unmatched record.
C11_Witness ==
    \E k \in 1..(Len(process_calls) - 1) :
       LET a == process_calls[k]
           b == process_calls[k + 1]
       IN  /\ a.preview_only /\ b.preview_only /\ Follows(a, b)
           /\ a.ok
           /\ a.results.locations_assigned > 0
           /\ a.results.no_location_found > 0

\* C12: from the same document state and the same index, a Preview pass and an
\* Apply pass return identical reports; they differ only in that Apply writes
\* the document.
C12_PreviewEqualsApply ==
    \A i, j \in DOMAIN process_calls :
       LET a == process_calls[i]
           b == process_calls[j]
       IN  (a.preview_only /\ ~b.preview_only /\ a.before = b.before)
              => SameReturn(a, b)

\* C12 witness: a Preview pass and an Apply pass from the same state, the Apply
\* pass having written an assignment into the document.
C12_Witness ==
    \E i, j \in DOMAIN process_calls :
       LET a == process_calls[i]
           b == process_calls[j]
       IN  /\ a.preview_only /\ ~b.preview_only /\ a.before = b.before
           /\ b.ok
           /\ b.results.locations_assigned > 0
           /\ b.results.no_location_found > 0
           /\ b.after.root # b.before.root

\* C13: a Preview pass leaves the document unchanged: the tree, every record
\* and so the set of records without a location are as before the pass.
C13_PreviewLeavesDocument ==
    \A k \in DOMAIN process_calls :
       LET a == process_calls[k]
       IN  a.preview_only =>
              /\ a.after.root = a.before.root
              /\ a.after.items = a.before.items
              /\ Unlocated(a.after.items) = Unlocated(a.before.items)

\* C13 witness: a Preview pass that proposed an assignment for a record that
\* is still without a location.
C13_Witness ==
    \E k \in DOMAIN process_calls :
       LET a == process_calls[k]
       IN  /\ a.preview_only
           /\ a.ok
           /\ a.results.locations_assigned > 0
           /\ Unlocated(a.after.items) # {}

\* C14: process_bsx_file called while inventory_loaded is still False returns
\* an error result and no report, in either mode, and leaves the tree and every
\* record unchanged.
C14_ErrorBeforeLoad ==
    \A k \in DOMAIN process_calls :
       LET a == process_calls[k]
       IN  ~a.before.inventory_loaded =>
              /\ ~a.ok
              /\ DOMAIN a.results = {"error"}
              /\ a.after.root = a.before.root
              /\ a.after.items = a.before.items

\* C14 witness: an Apply pass asked for before any load of the inventory, on a
\* document holding records without a location.
C14_Witness ==
    \E k \in DOMAIN process_calls :
       LET a == process_calls[k]
       IN  /\ ~a.before.inventory_loaded
           /\ ~a.preview_only
           /\ Unlocated(a.before.items) # {}

\* C15 as stated: the success rate is exactly assigned / (assigned + unmatched)
\* * 100 (here in tenths of a percent), 0 without candidates, within 0..100.
C15_Original ==
    \A k \in DOMAIN process_calls :
       LET a == process_calls[k]
           assigned  == a.results.locations_assigned
           unmatched == a.results.no_location_found
           rate      == a.results.success_rate
       IN  a.ok =>
              /\ assigned + unmatched > 0 =>
                    rate * (assigned + unmatched) = assigned * 1000
              /\ assigned + unmatched = 0 => rate = 0
              /\ 0 <= rate /\ rate <= 1000

\* C15: the success rate is assigned / (assigned + unmatched) * 100 rounded to
\* one decimal place (no further from the exact value than half a tenth), 0
\* without candidates, and within 0..100.
C15_SuccessRateRounded ==
    \A k \in DOMAIN process_calls :
       LET a == process_calls[k]
           assigned  == a.results.locations_assigned
           unmatched == a.results.no_location_found
           rate      == a.results.success_rate
           diff      == rate * (assigned + unmatched) - assigned * 1000
       IN  a.ok =>
              /\ assigned + unmatched > 0 =>
                    /\ 2 * diff <= assigned + unmatched
                    /\ 2 * (0 - diff) <= assigned + unmatched
              /\ assigned + unmatched = 0 => rate = 0
              /\ 0 <= rate /\ rate <= 1000

\* C15 witness: a report with three candidates of which one or two were
\* assigned, so that the exact rate has no finite decimal expansion.
C15_Witness ==
    \E k \in DOMAIN process_calls :
       LET a == process_calls[k]
       IN  /\ a.ok
           /\ a.results.locations_assigned + a.results.no_location_found = 3
           /\ a.results.locations_assigned \in {1, 2}
           /\ a.results.success_rate \in {333, 667}

-----------------------------------------------------------------------------
(* Properties of load_inventory_locations, read off the index and the feed *)

\* The text without the blanks at its ends.
Trimmed(text) ==
    LET Inner == {i \in DOMAIN text : text[i] \notin {" ", "\n", "\t"}}
    IN  IF Inner = {} THEN <<>>
        ELSE SubSeq(text, CHOOSE i \in Inner : \A j \in Inner : i <= j,
                          CHOOSE i \in Inner : \A j \in Inner : j <= i)

\* The positions of the feed records of item id that carry a location.
Located(id) ==
    {j \in DOMAIN feed : feed[j].no = id /\ feed[j].no # <<>>
                          /\ Trimmed(feed[j].remarks) # <<>>}

\* The k-th smallest element of a set of positions.
Nth(positions, k) ==
    CHOOSE j \in positions : Cardinality({i \in positions : i <= j}) = k

\* The item ids of the feed.
FeedIds == {feed[j].no : j \in DOMAIN feed}

\* C16: the index built by load_inventory_locations holds, for each feed record
\* with a non-empty item id and a non-empty trimmed location text, exactly one
\* entry {location, quantity, condition, color_id} in the list of its item id,
\* in feed order; records without a location add nothing, and an item id
\* without a located record is absent.
C16_IndexFromFeed ==
    inventory_loaded =>
       /\ DOMAIN inventory_locations = {id \in FeedIds : Located(id) # {}}
       /\ \A id \in DOMAIN inventory_locations :
             /\ Len(inventory_locations[id]) = Cardinality(Located(id))
             /\ \A k \in DOMAIN inventory_locations[id] :
                   LET record == feed[Nth(Located(id), k)]
                   IN  inventory_locations[id][k] =
                          [location  |-> Trimmed(record.remarks),
                           quantity  |-> record.quantity,
                           condition |-> record.condition,
                           color_id  |-> record.color_id]

\* C16 witness: an index built from a feed holding a record that lacks an item
\* id or a location, a record whose location text has a blank at an end, and
\* two located records of one item.
C16_Witness ==
    /\ inventory_loaded
    /\ \E j \in DOMAIN feed : j \notin Located(feed[j].no)
    /\ \E j \in DOMAIN feed : /\ j \in Located(feed[j].no)
                                /\ Trimmed(feed[j].remarks) # feed[j].remarks
    /\ \E id \in DOMAIN inventory_locations : Len(inventory_locations[id]) >= 2

\* The summed quantity of the feed records at the given positions.
RECURSIVE FeedQuantity(_)
FeedQuantity(positions) ==
    IF positions = {} THEN 0
    ELSE LET j == CHOOSE p \in positions : TRUE
         IN  feed[j].quantity + FeedQuantity(positions \ {j})

\* C17 as stated: once the index is built, each item id has at most one entry
\* per (location, color, condition) combination, and the entry's quantity is
\* the sum of the quantities of all feed records of that item and combination.
C17_Original ==
    inventory_loaded =>
       \A id \in DOMAIN inventory_locations :
          LET entries == inventory_locations[id]
          IN  /\ \A i, j \in DOMAIN entries :
                    (/\ entries[i].location = entries[j].location
                     /\ entries[i].color_id = entries[j].color_id
                     /\ entries[i].condition = entries[j].condition) => i = j
              /\ \A i \in DOMAIN entries :
                    entries[i].quantity =
                       FeedQuantity({j \in Located(id) :
                                       /\ Trimmed(feed[j].remarks) = entries[i].location
                                       /\ feed[j].color_id = entries[i].color_id
                                       /\ feed[j].condition = entries[i].condition})

-----------------------------------------------------------------------------
(* Frame and coverage of a pass *)

\* C18: a step that records a process_bsx_file call, in either mode, or a
\* find_best_location_for_item call leaves inventory_locations and
\* inventory_loaded as it found them, so every pass against one index sees the
\* same index.
C18_IndexUntouched ==
    [][(process_calls' # process_calls \/ (best_call'.made /\ best_call' # best_call))
         => UNCHANGED <<inventory_locations, inventory_loaded>>]_vars

\* C18 witness: an Apply pass wrote an assignment into the document and
\* find_best_location_for_item was called, the index still being the one the
\* pass started from.
C18_Witness ==
    /\ best_call.made
    /\ best_call.result # NoneVal
    /\ \E k \in DOMAIN process_calls :
          LET a == process_calls[k]
          IN  /\ ~a.preview_only
              /\ a.ok
              /\ a.results.locations_assigned > 0
              /\ a.after.root # a.before.root
              /\ a.before.inventory_locations = inventory_locations
              /\ inventory_locations # EmptyDict

\* The report entry of a record, without the assigned location.
Reported(record) ==
    [item_id    |-> record.item_id,
     item_name  |-> record.item_name,
     color_name |-> record.color_name,
     condition  |-> record.condition,
     quantity   |-> record.qty]

\* A report entry without its assigned location.
Stripped(entry) ==
    [item_id    |-> entry.item_id,
     item_name  |-> entry.item_name,
     color_name |-> entry.color_name,
     condition  |-> entry.condition,
     quantity   |-> entry.quantity]

\* The report entries of the records at the given positions, in list order.
ReportedAt(its, positions) ==
    [k \in 1..Cardinality(positions) |-> Reported(its[Nth(positions, k)])]

\* C19: a pass considers exactly the records whose location is empty when it
\* starts: total_items_processed is their number, each of them is reported
\* once, as assigned or as unmatched, in document order, and a record that
\* has a location is neither reported nor modified.
C19_ExactlyTheUnlocated ==
    \A k \in DOMAIN process_calls :
       LET a == process_calls[k]
           before == a.before.items
           candidates == Unlocated(before)
           matched == {i \in candidates :
                          before[i].item_id \in DOMAIN a.before.inventory_locations}
       IN  a.ok =>
              /\ a.results.total_items_processed = Cardinality(candidates)
              /\ [j \in DOMAIN a.results.assignment_details |->
                     Stripped(a.results.assignment_details[j])]
                    = ReportedAt(before, matched)
              /\ a.results.items_without_matches
                    = ReportedAt(before, candidates \ matched)
              /\ Len(a.after.items) = Len(before)
              /\ \A i \in DOMAIN before \ candidates :
                    /\ a.after.items[i] = before[i]
                    /\ ElemAt(a.after.root[1], before[i].xml_element)
                          = ElemAt(a.before.root[1], before[i].xml_element)

\* C19 witness: an Apply pass over a document holding a located record between
\* records without a location, one of which was assigned and one unmatched.
C19_Witness ==
    \E k \in DOMAIN process_calls :
       LET a == process_calls[k]
           before == a.before.items
       IN  /\ a.ok
           /\ ~a.preview_only
           /\ Len(before) = 3
           /\ Unlocated(before) = {1, 3}
           /\ a.results.locations_assigned = 1
           /\ a.results.no_location_found = 1

-----------------------------------------------------------------------------
(* Properties of update_item_location, read off the recorded call *)

\* The positions of the Remarks children of an element.
RemarksAt(elem) == {j \in DOMAIN elem.kids : elem.kids[j].tag = "Remarks"}

\* Two elements are the same apart from their text.
SameButText(a, b) ==
    a.tag = b.tag /\ a.attrib = b.attrib /\ a.kids = b.kids /\ a.tail = b.tail

\* C20: update_item_location(record, L) fails only when the record has no
\* element, and then changes nothing; on success the record's remarks and the
\* text of the first Remarks child of its element are L, a Remarks child is
\* created only when the element had none (their number is unchanged, or
\* becomes one), and no other child, attribute or record changes.
C20_UpdateItemLocation ==
    update_call.made =>
       LET c == update_call
       IN  /\ ~c.ok <=> c.item.xml_element = NoElement
           /\ ~c.ok => c.root_after = c.root_before /\ c.items_after = c.items_before
           /\ c.ok =>
                 LET path == c.item.xml_element
                     old  == ElemAt(c.root_before[1], path)
                     new  == ElemAt(c.root_after[1], path)
                     first == CHOOSE j \in RemarksAt(new) :
                                 \A i \in RemarksAt(new) : j <= i
                 IN  /\ c.items_after[c.index].remarks = c.location
                     /\ c.items_after =
                           [c.items_before EXCEPT ![c.index].remarks = c.location]
                     /\ RemarksAt(new) # {}
                     /\ new.kids[first].text = c.location
                     /\ new.tag = old.tag /\ new.attrib = old.attrib
                     /\ new.text = old.text /\ new.tail = old.tail
                     /\ IF RemarksAt(old) = {}
                        THEN /\ Len(new.kids) = Len(old.kids) + 1
                             /\ RemarksAt(new) = {Len(new.kids)}
                             /\ new.kids[first].kids = <<>>
                             /\ new.kids[first].attrib = <<>>
                        ELSE /\ Len(new.kids) = Len(old.kids)
                             /\ RemarksAt(new) = RemarksAt(old)
                             /\ SameButText(new.kids[first], old.kids[first])
                     /\ \A j \in DOMAIN old.kids :
                           j # first => new.kids[j] = old.kids[j]
                     /\ c.root_after[1] = ReplaceAt(c.root_before[1], path, new)

\* C20 witness: an update succeeded on a record whose element had no Remarks
\* child and had a child with attributes.
C20_Witness ==
    /\ update_call.made
    /\ update_call.ok
    /\ LET old == ElemAt(update_call.root_before[1], update_call.item.xml_element)
       IN  /\ RemarksAt(old) = {}
           /\ \E j \in DOMAIN old.kids : old.kids[j].attrib # <<>>

-----------------------------------------------------------------------------
(* Properties of load_bsx_file, read off the recorded call *)

\* The file the recorded call was given holds a BrickStoreXML document.
LoadedContentValid ==
    /\ load_call.content # <<>>
    /\ WellFormed(load_call.content[1])
    /\ ParseFile(load_call.content[1]).tag = "BrickStoreXML"

\* C21: load_bsx_file reports failure, never success, when the content of
\* the file is not well-formed XML or its root element is not BrickStoreXML.
C21_LoadFailure ==
    load_call.made /\ load_call.content # <<>> /\ ~LoadedContentValid
        => ~load_call.ok

\* C21 witness: after a document was loaded, a well-formed file with another
\* root tag is refused, and so was a file that is not well-formed.
C21_Witness ==
    /\ load_call.made
    /\ ~load_call.ok
    /\ load_call.before.items # <<>>
    /\ load_call.content # <<>>
    /\ WellFormed(load_call.content[1])
    /\ ParseFile(load_call.content[1]).tag # "BrickStoreXML"
    /\ \A p \in {BrokenPath} : ~WellFormed(disk[p])

\* C27: a load_bsx_file call that returns failure leaves root, items and
\* file_path as they were, so the elements of the items always belong to root.
C27_Original ==
    /\ load_call.made /\ ~load_call.ok =>
          /\ load_call.after.root = load_call.before.root
          /\ load_call.after.items = load_call.before.items
          /\ load_call.after.file_path = load_call.before.file_path
    /\ detached = <<>>

-----------------------------------------------------------------------------
(* Properties of load_inventory_locations across calls *)

\* C23: whenever inventory_loaded is true, the index is the one built from
\* the complete record list of the most recent call that returned success; a
\* call that returns failure leaves the index as it was.
C23_Original ==
    inventory_loaded => inventory_locations = BuildIndex(EmptyDict, fetched)

-----------------------------------------------------------------------------
(* Order of the entry list: what find_best_location_for_item makes of it *)

\* The position of the first entry of the called item at location l.
FirstEntry(l) ==
    CHOOSE i \in DOMAIN CalledEntries :
       /\ CalledEntries[i].location = l
       /\ \A j \in 1..(i - 1) : CalledEntries[j].location # l

\* The entry list with the entries at positions i and j exchanged.
Swap(entries, i, j) ==
    [k \in DOMAIN entries |->
        IF k = i THEN entries[j] ELSE IF k = j THEN entries[i] ELSE entries[k]]

\* The result of the recorded call had the item's entry list been entries.
ResultOn(entries) ==
    find_best_location_for_item(
        TRUE,
        [k \in DOMAIN inventory_locations \cup {best_call.item.item_id} |->
            IF k = best_call.item.item_id THEN entries ELSE inventory_locations[k]],
        best_call.item)

\* Two locations of S come first together under the order First.
BestTie(S, First(_, _)) ==
    \E a, b \in S : /\ a # b
                    /\ \A c \in S : First(a, c) /\ First(b, c)

\* A tie of rule 1, 3, 4 or 5: several dedicated locations, or several
\* locations that share the best sort key of the rule that applies.
TieSituation ==
    \/ Cardinality({l \in CalledLocations : Dedicated(l)}) >= 2
    \/ Rule3Applies /\ BestTie({l \in CalledLocations : Pure(l)}, FirstAscending)
    \/ Rule4Applies /\ BestTie({l \in CalledLocations : Mixed(l)}, FirstDescending)
    \/ Rule5Applies /\ BestTie(CalledLocations, FirstDescending)

\* C24: among several locations dedicated to the target color the one whose
\* first entry comes earliest in the item's entry list is returned, whatever
\* the quantities and zones; exchanging two entries of the list changes the
\* result only in a tie of rule 1, 3, 4 or 5.
C24_FirstDiscovered ==
    Called /\ CalledEntries # <<>> =>
       /\ \A l \in CalledLocations :
             Dedicated(l) /\ (\A m \in CalledLocations :
                                 Dedicated(m) => FirstEntry(l) <= FirstEntry(m))
                => best_call.result = l
       /\ \A i, j \in DOMAIN CalledEntries :
             i < j /\ ResultOn(Swap(CalledEntries, i, j)) # best_call.result
                => TieSituation

\* C24 witness: of two dedicated locations the first discovered is returned
\* although the other has the better zone and the larger quantity, and
\* exchanging two entries changes the result.
C24_Witness ==
    /\ Called
    /\ \E l \in CalledLocations :
          /\ Dedicated(l)
          /\ Dedicated(best_call.result)
          /\ l # best_call.result
          /\ Zone(l) < Zone(best_call.result)
          /\ Total(l) > Total(best_call.result)
    /\ \E i, j \in DOMAIN CalledEntries :
          ResultOn(Swap(CalledEntries, i, j)) # best_call.result

-----------------------------------------------------------------------------
(* What find_best_location_for_item does not read *)

\* The entry list with the entries at the positions of used marked as used.
WithUsed(entries, used) ==
    [k \in DOMAIN entries |->
        IF k \in used THEN [entries[k] EXCEPT !.condition = "U"] ELSE entries[k]]

\* The result for the target given with a condition and a quantity, against
\* the item's entry list entries.
ResultFor(entries, condition, qty) ==
    find_best_location_for_item(
        TRUE,
        [k \in DOMAIN inventory_locations \cup {best_call.item.item_id} |->
            IF k = best_call.item.item_id THEN entries ELSE inventory_locations[k]],
        [best_call.item EXCEPT !.condition = condition, !.qty = qty])

\* C28: the location returned does not depend on the condition of the target
\* or of any usage entry, nor on the target's quantity: the inputs that differ
\* from the recorded one in the condition of one entry or of all entries, in
\* the target's condition and in its quantity have the same result.
C28_ConditionBlind ==
    Called /\ CalledEntries # <<>> =>
       /\ \A i \in DOMAIN CalledEntries :
             ResultFor(WithUsed(CalledEntries, {i}), best_call.item.condition,
                       best_call.item.qty) = best_call.result
       /\ \A used \in {{}, DOMAIN CalledEntries} :
             \A condition \in {"N", "U"}, qty \in {1, 25} :
                ResultFor(WithUsed(CalledEntries, used), condition, qty)
                   = best_call.result

\* C28 witness: a call decided on quantities, among entries of which two are
\* at one location.
C28_Witness ==
    /\ Called
    /\ best_call.result # NoneVal
    /\ Rule3Applies \/ Rule5Applies
    /\ \E i, j \in DOMAIN CalledEntries :
          i # j /\ CalledEntries[i].location = CalledEntries[j].location

\* The positions of entries holding the first entry of their (location, color).
FirstOfPair(entries) ==
    {i \in DOMAIN entries :
        \A j \in 1..(i - 1) : \/ entries[j].location # entries[i].location
                              \/ entries[j].color_id # entries[i].color_id}

\* The summed quantity of the entries up to n with the location and color of
\* entry i.
RECURSIVE PairQuantity(_, _, _)
PairQuantity(entries, i, n) ==
    IF n = 0 THEN 0
    ELSE PairQuantity(entries, i, n - 1)
         + (IF /\ entries[n].location = entries[i].location
               /\ entries[n].color_id = entries[i].color_id
            THEN entries[n].quantity ELSE 0)

\* The entries from position i on, each (location, color) kept once, at the
\* position of its first entry, with the summed quantity.
RECURSIVE MergedFrom(_, _)
MergedFrom(entries, i) ==
    IF i > Len(entries) THEN <<>>
    ELSE (IF i \in FirstOfPair(entries)
          THEN <<[entries[i] EXCEPT !.quantity = PairQuantity(entries, i, Len(entries))]>>
          ELSE <<>>) \o MergedFrom(entries, i + 1)

Merged(entries) == MergedFrom(entries, 1)

\* C29: the result for an item's entry list equals the result for the list
\* in which the entries of one (location, color) are merged into one entry
\* with the summed quantity, at the position of the first of them.
C29_MergeInvariant ==
    Called /\ CalledEntries # <<>> =>
       ResultOn(Merged(CalledEntries)) = best_call.result

\* C29 witness: a call decided on quantities whose entry list holds two
\* entries of one location and color.
C29_Witness ==
    /\ Called
    /\ best_call.result # NoneVal
    /\ Len(Merged(CalledEntries)) < Len(CalledEntries)
    /\ ~Rule1Applies /\ ~Rule2Applies

-----------------------------------------------------------------------------
(* Preview, then Apply: what is written *)

\* Call k is a Preview pass and call k + 1 the Apply pass that follows it on
\* the same document and index.
PreviewThenApply(k) ==
    /\ k + 1 \in DOMAIN process_calls
    /\ process_calls[k].ok /\ process_calls[k].preview_only
    /\ process_calls[k + 1].ok /\ ~process_calls[k + 1].preview_only
    /\ Follows(process_calls[k], process_calls[k + 1])

\* The records of its that had no location before pass a and have one in
\* its are those listed in a's assignment_details, in order, each with the
\* location listed for it.
WrittenAsPreviewed(a, its) ==
    LET assigned == Unlocated(a.before.items) \ Unlocated(its)
        details == a.results.assignment_details
    IN  /\ DOMAIN its = DOMAIN a.before.items
        /\ Cardinality(assigned) = Len(details)
        /\ \A n \in DOMAIN details :
              /\ its[Nth(assigned, n)].remarks = details[n].assigned_location
              /\ Stripped(details[n]) = Reported(a.before.items[Nth(assigned, n)])

\* The records a handler of its own loads from the file last saved.
Reloaded == load_bsx_file(disk, <<>>, <<>>, <<>>, <<>>, last_save.path)

\* C25: an Apply pass that follows a Preview pass on the same document and
\* index writes exactly the previewed locations, in the records and in the
\* file saved and loaded again, and a further pass has the previously
\* unmatched records as its candidates and assigns none.
C25_ApplyWritesPreview ==
    \A k \in DOMAIN process_calls :
       PreviewThenApply(k) =>
          LET a == process_calls[k]
              b == process_calls[k + 1]
          IN  /\ WrittenAsPreviewed(a, b.after.items)
              /\ k + 1 = Len(process_calls) /\ last_save.made
                    /\ last_save.updates = updates
                 => Reloaded.ok /\ WrittenAsPreviewed(a, Reloaded.items)
              /\ k + 2 \in DOMAIN process_calls
                    /\ process_calls[k + 2].ok /\ Follows(b, process_calls[k + 2])
                 => LET c == process_calls[k + 2]
                    IN  /\ c.results.total_items_processed
                              = a.results.no_location_found
                        /\ c.results.items_without_matches
                              = a.results.items_without_matches
                        /\ c.results.locations_assigned = 0
                        /\ c.results.assignment_details = <<>>

\* C25 witness: a Preview pass that lists an assignment and an unmatched
\* record, the Apply pass after it, and the file saved after that.
C25_Witness ==
    /\ Len(process_calls) = 2
    /\ PreviewThenApply(1)
    /\ process_calls[1].results.assignment_details # <<>>
    /\ process_calls[1].results.items_without_matches # <<>>
    /\ last_save.made
    /\ last_save.updates = updates
    /\ updates # <<>>

-----------------------------------------------------------------------------
(* The counts of a report *)

-----------------------------------------------------------------------------
(* Properties of get_inventory, read off the call in progress *)

\* The records the provider holds on page p.
PageItems(p) == IF p \in DOMAIN pages.data THEN pages.data[p] ELSE <<>>

\* The records of pages 1 to p, in order.
RECURSIVE Concatenated(_)
Concatenated(p) == IF p = 0 THEN <<>> ELSE Concatenated(p - 1) \o PageItems(p)

\* The loop ends with page p: the page is empty, or it is the last one going
\* by the meta object, which defaults to the page itself.
StopsAt(p) == PageItems(p) = <<>> \/ ~pages.meta \/ p >= pages.total_pages

\* What a finished get_inventory call has done and returned.
Returned ==
    LET n == Len(fetch.requests)
    IN  /\ fetch.requests = [i \in 1..n |-> i]
        /\ n >= 1
        /\ \A p \in 1..(n - 1) : ~StopsAt(p)
        /\ IF fetch.failed
           THEN fetch.result = [ok |-> FALSE, items |-> <<>>]
           ELSE /\ StopsAt(n)
                /\ fetch.result = [ok |-> TRUE, items |-> Concatenated(n)]

\* C30: get_inventory always returns; it has then requested the pages 1, 2,
\* ... in order up to the first failed page, the first empty page or the
\* first page with current_page >= total_pages, and has returned failure
\* without records in the first case and the concatenation of the pages
\* fetched otherwise.
C30_GetInventory ==
    /\ [](fetch.pc = "done" => Returned)
    /\ (fetch.pc = "request" ~> fetch.pc = "done")

\* C30 witness: a call that returned the records of two pages, the second
\* being the last by total_pages.
C30_Witness ==
    /\ fetch.pc = "done"
    /\ ~fetch.failed
    /\ Len(fetch.requests) = 2
    /\ PageItems(2) # <<>>
    /\ fetch.result.items = PageItems(1) \o PageItems(2)

====
